---- MODULE Spec2Model ----
(***************************************************************************)
(* A model of the projection engine of the odds-projection service:        *)
(* the edge / margin / probability / confidence evaluation of the football *)
(* and basketball routes, the football game projection, the base           *)
(* projection extracted from a player gamelog, and the soccer              *)
(* team-strength estimator.                                                *)
(*                                                                         *)
(* Python floats are modelled as exact rationals [n |-> numerator,         *)
(* d |-> denominator > 0] in lowest terms; every input of the model is a   *)
(* small dyadic or integer value, for which the float operations of the    *)
(* code at the compared thresholds are exact.                              *)
(***************************************************************************)
EXTENDS Integers, Sequences, FiniteSets, TLC

VARIABLES
    margins,      \* SpecMono: the two safety_margin_pct values under evaluation
    tiers,        \* SpecMono: the (prob_cover, confidence) computed for each
    payload,      \* SpecEval: the request together with the provider's data
    response,     \* SpecEval: the HTTP response of the handler that ran
    gamelog,      \* SpecSeries: the provider's gamelog payload of one player
    games_window, \* SpecSeries: the games_window argument
    projection,   \* SpecSeries: the base projection computed by each path
    competitor,   \* SpecRecord: a scoreboard competitor with its records
    record_data,  \* SpecRecord: the dict returned by _extract_record_data
    lambda_args,  \* SpecLambdas: the arguments of _compute_bayesian_lambdas
    lambdas,      \* SpecLambdas: its locals at return
    rates,        \* SpecPoisson: the goal rates given to _poisson_score_matrix
    matrix,       \* SpecPoisson: its locals at return
    player_gamelog, \* SpecStreak: the gamelog fetched for the player of the roster
    buckets,      \* SpecStreak: the buckets of build_streaks_for_date at return
    _cache,       \* SpecCache, SpecFetch: the dict of app/utils/cache.py
    now,          \* SpecCache, SpecFetch: the wall clock, time.time()
    returned,     \* SpecCache: the last call of the cache and what it returned
    frames        \* SpecFetch: the frame of each request in flight

vars == <<margins, tiers, payload, response, gamelog, games_window,
          projection, competitor, record_data, lambda_args, lambdas,
          rates, matrix, player_gamelog, buckets, _cache, now, returned,
          frames>>

\* the variables of each specification
monoVars == <<margins, tiers>>
evalVars == <<payload, response>>
seriesVars == <<gamelog, games_window, projection>>
recordVars == <<competitor, record_data>>
lambdasVars == <<lambda_args, lambdas>>
poissonVars == <<rates, matrix>>
streakVars == <<player_gamelog, buckets>>
cacheVars == <<_cache, now, returned, frames>>

-----------------------------------------------------------------------------
(* Exact rational arithmetic standing for Python float arithmetic.         *)

Abs(x) == IF x < 0 THEN -x ELSE x

RECURSIVE GCD(_, _)
GCD(a, b) ==
    IF b = 0 THEN a
    ELSE IF a % b = 0 THEN b
    ELSE GCD(a % b, b % (a % b))

Q(n, d) ==
    LET g == GCD(Abs(n), Abs(d))
        s == IF d < 0 THEN -1 ELSE 1
    IN  [n |-> (s * n) \div g, d |-> (s * d) \div g]

F(k) == [n |-> k, d |-> 1]

\* a and b over their least common denominator
LCD(a, b) == (a.d \div GCD(a.d, b.d)) * b.d
Over(a, d) == a.n * (d \div a.d)

\* the floats
Floats == [n : Int, d : Int]

\* the operations on floats, as functions: their operands are evaluated
\* first, as Python evaluates them
AddF == [a \in Floats, b \in Floats |->
            Q(Over(a, LCD(a, b)) + Over(b, LCD(a, b)), LCD(a, b))]
SubF == [a \in Floats, b \in Floats |->
            Q(Over(a, LCD(a, b)) - Over(b, LCD(a, b)), LCD(a, b))]
MulF == [a \in Floats, b \in Floats |->
            Q((a.n \div GCD(Abs(a.n), b.d)) * (b.n \div GCD(Abs(b.n), a.d)),
              (a.d \div GCD(Abs(b.n), a.d)) * (b.d \div GCD(Abs(a.n), b.d)))]
LtF == [a \in Floats, b \in Floats |-> Over(a, LCD(a, b)) < Over(b, LCD(a, b))]
LeF == [a \in Floats, b \in Floats |-> Over(a, LCD(a, b)) <= Over(b, LCD(a, b))]

AddQ(a, b) == AddF[a, b]
SubQ(a, b) == SubF[a, b]
MulQ(a, b) == MulF[a, b]
DivQ(a, b) == MulQ(a, Q(b.d, b.n))
AbsQ(a) == [n |-> Abs(a.n), d |-> a.d]
LtQ(a, b) == LtF[a, b]
LeQ(a, b) == LeF[a, b]
GtQ(a, b) == LtQ(b, a)
GeQ(a, b) == LeQ(b, a)
MaxQ(a, b) == IF GeQ(a, b) THEN a ELSE b
MinQ(a, b) == IF LeQ(a, b) THEN a ELSE b

\* Next of a value that is computed first, as Python computes the value of an
\* assignment before it runs the statements that follow
Then(value, Next(_)) == CHOOSE result \in {Next(v) : v \in {value}} : TRUE

-----------------------------------------------------------------------------
(* The probability and confidence step functions, one copy per handler.    *)

\* routes_nfl.py wspm_projection
wspm_projection_prob_cover(abs_m) ==
    IF LtQ(abs_m, F(2)) THEN F(52)
    ELSE IF LtQ(abs_m, F(5)) THEN F(55)
    ELSE IF LtQ(abs_m, F(10)) THEN F(60)
    ELSE IF LtQ(abs_m, F(15)) THEN F(65)
    ELSE F(70)

wspm_projection_confidence(safety_margin_pct) ==
    IF GeQ(safety_margin_pct, F(15)) THEN "Alta"
    ELSE IF GeQ(safety_margin_pct, F(10)) THEN "Media-Alta"
    ELSE IF GeQ(safety_margin_pct, F(5)) THEN "Media"
    ELSE "Baja"

\* routes_nfl.py wspm_auto_projection
wspm_auto_projection_prob_cover(safety_margin_pct) ==
    IF LtQ(safety_margin_pct, F(2)) THEN F(52)
    ELSE IF LtQ(safety_margin_pct, F(5)) THEN F(55)
    ELSE IF LtQ(safety_margin_pct, F(10)) THEN F(60)
    ELSE IF LtQ(safety_margin_pct, F(15)) THEN F(65)
    ELSE F(70)

wspm_auto_projection_confidence(safety_margin_pct) ==
    IF GeQ(safety_margin_pct, F(15)) THEN "Alta"
    ELSE IF GeQ(safety_margin_pct, F(10)) THEN "Media-Alta"
    ELSE IF GeQ(safety_margin_pct, F(5)) THEN "Media"
    ELSE "Baja"

\* routes_nfl.py wspm_auto_projection_report
wspm_auto_projection_report_prob_cover(safety_margin_pct) ==
    IF LtQ(safety_margin_pct, F(2)) THEN F(52)
    ELSE IF LtQ(safety_margin_pct, F(5)) THEN F(55)
    ELSE IF LtQ(safety_margin_pct, F(10)) THEN F(60)
    ELSE IF LtQ(safety_margin_pct, F(15)) THEN F(65)
    ELSE F(70)

wspm_auto_projection_report_confidence(safety_margin_pct) ==
    IF GeQ(safety_margin_pct, F(15)) THEN "Alta"
    ELSE IF GeQ(safety_margin_pct, F(10)) THEN "Media-Alta"
    ELSE IF GeQ(safety_margin_pct, F(5)) THEN "Media"
    ELSE "Baja"

\* routes_nba.py nba_wspm_auto_projection
nba_wspm_auto_projection_prob_cover(safety_margin_pct) ==
    IF LtQ(safety_margin_pct, F(2)) THEN F(52)
    ELSE IF LtQ(safety_margin_pct, F(5)) THEN F(55)
    ELSE IF LtQ(safety_margin_pct, F(10)) THEN F(60)
    ELSE IF LtQ(safety_margin_pct, F(15)) THEN F(65)
    ELSE F(70)

\* a confidence that falls back to "Media" from 15 up
confidence_capped(safety_margin_pct) ==
    IF GeQ(safety_margin_pct, F(5)) /\ LtQ(safety_margin_pct, F(10)) THEN "Media"
    ELSE IF GeQ(safety_margin_pct, F(10)) /\ LtQ(safety_margin_pct, F(15)) THEN "Media-Alta"
    ELSE IF GeQ(safety_margin_pct, F(15)) THEN "Media"
    ELSE "Baja"

nba_wspm_auto_projection_confidence(safety_margin_pct) ==
    IF GeQ(safety_margin_pct, F(15)) THEN "Alta"
    ELSE IF GeQ(safety_margin_pct, F(10)) THEN "Media-Alta"
    ELSE IF GeQ(safety_margin_pct, F(5)) THEN "Media"
    ELSE "Baja"

\* routes_nba.py nba_wspm_auto_projection_report
nba_wspm_auto_projection_report_prob_cover(safety_margin_pct) ==
    IF LtQ(safety_margin_pct, F(2)) THEN F(52)
    ELSE IF LtQ(safety_margin_pct, F(5)) THEN F(55)
    ELSE IF LtQ(safety_margin_pct, F(10)) THEN F(60)
    ELSE IF LtQ(safety_margin_pct, F(15)) THEN F(65)
    ELSE F(70)

nba_wspm_auto_projection_report_confidence(safety_margin_pct) ==
    IF GeQ(safety_margin_pct, F(15)) THEN "Alta"
    ELSE IF GeQ(safety_margin_pct, F(10)) THEN "Media-Alta"
    ELSE IF GeQ(safety_margin_pct, F(5)) THEN "Media"
    ELSE "Baja"

\* nfl_game_projection.py compute_game_projection, nested helpers
_conf(pct) ==
    IF GeQ(pct, F(15)) THEN "Alta"
    ELSE IF GeQ(pct, F(10)) THEN "Media-Alta"
    ELSE IF GeQ(pct, F(5)) THEN "Media"
    ELSE "Baja"

\* a probability step whose thresholds belong to the tier below
prob_above_thresholds(pct) ==
    IF GtQ(pct, F(15)) THEN F(70)
    ELSE IF GtQ(pct, F(10)) THEN F(65)
    ELSE IF GtQ(pct, F(5)) THEN F(60)
    ELSE IF GtQ(pct, F(2)) THEN F(55)
    ELSE F(52)

_prob_from_safety(pct) ==
    IF GeQ(pct, F(15)) THEN F(70)
    ELSE IF GeQ(pct, F(10)) THEN F(65)
    ELSE IF GeQ(pct, F(5)) THEN F(60)
    ELSE IF GeQ(pct, F(2)) THEN F(55)
    ELSE F(52)

-----------------------------------------------------------------------------
(* Provider values.  A JSON string is a sequence of one-character strings, *)
(* so that str.replace, str.split, str.lower, int() and float() are        *)
(* computed on the characters.  The strings of the model are written over  *)
(* digits, letters, "-", "," and " ".                                      *)

DigitChars == <<"0", "1", "2", "3", "4", "5", "6", "7", "8", "9">>

IsDigit(c) == \E i \in 1 .. 10 : DigitChars[i] = c

DigitVal(c) == (CHOOSE i \in 1 .. 10 : DigitChars[i] = c) - 1

AllDigits(s) == Len(s) > 0 /\ \A i \in 1 .. Len(s) : IsDigit(s[i])

RECURSIVE DigitsValue(_)
DigitsValue(s) ==
    IF s = <<>> THEN 0
    ELSE 10 * DigitsValue(SubSeq(s, 1, Len(s) - 1)) + DigitVal(s[Len(s)])

\* str.replace(ch, "")
RECURSIVE Remove(_, _)
Remove(s, ch) ==
    IF s = <<>> THEN <<>>
    ELSE IF Head(s) = ch THEN Remove(Tail(s), ch)
    ELSE <<Head(s)>> \o Remove(Tail(s), ch)

\* str.strip()
RECURSIVE Strip(_)
Strip(s) ==
    IF s = <<>> THEN s
    ELSE IF Head(s) = " " THEN Strip(Tail(s))
    ELSE IF s[Len(s)] = " " THEN Strip(SubSeq(s, 1, Len(s) - 1))
    ELSE s

\* str.split(sep): the parts between the separators, empty parts kept
RECURSIVE Split(_, _)
Split(s, sep) ==
    IF \A i \in 1 .. Len(s) : s[i] # sep THEN <<s>>
    ELSE LET k == CHOOSE i \in 1 .. Len(s) :
                      s[i] = sep /\ \A j \in 1 .. i - 1 : s[j] # sep
         IN  <<SubSeq(s, 1, k - 1)>> \o Split(SubSeq(s, k + 1, Len(s)), sep)

UpperChars == <<"A", "B", "C", "D", "E", "F", "G", "H", "I", "J", "K", "L", "M",
                "N", "O", "P", "Q", "R", "S", "T", "U", "V", "W", "X", "Y", "Z">>
LowerChars == <<"a", "b", "c", "d", "e", "f", "g", "h", "i", "j", "k", "l", "m",
                "n", "o", "p", "q", "r", "s", "t", "u", "v", "w", "x", "y", "z">>

LowerChar(c) ==
    IF \E i \in 1 .. 26 : UpperChars[i] = c
    THEN LowerChars[CHOOSE i \in 1 .. 26 : UpperChars[i] = c]
    ELSE c

\* str.lower()
Lower(s) == [i \in 1 .. Len(s) |-> LowerChar(s[i])]

\* needle in hay, for strings
Contains(hay, needle) ==
    \E i \in 1 .. Len(hay) - Len(needle) + 1 :
        SubSeq(hay, i, i + Len(needle) - 1) = needle

\* The outcome of a conversion: ok = FALSE stands for TypeError / ValueError.
Parsed(v) == [ok |-> TRUE, v |-> v]
Unparsed == [ok |-> FALSE, v |-> F(0)]

\* int(s) of a string
int(s) ==
    IF AllDigits(s) THEN Parsed(DigitsValue(s))
    ELSE IF Len(s) > 1 /\ Head(s) = "+" /\ AllDigits(Tail(s)) THEN Parsed(DigitsValue(Tail(s)))
    ELSE IF Len(s) > 1 /\ Head(s) = "-" /\ AllDigits(Tail(s)) THEN Parsed(-DigitsValue(Tail(s)))
    ELSE [ok |-> FALSE, v |-> 0]

\* float(s) of a string: digits with an optional leading minus sign
float_str(s) ==
    IF AllDigits(s) THEN Parsed(F(DigitsValue(s)))
    ELSE IF Len(s) > 1 /\ Head(s) = "-" /\ AllDigits(Tail(s))
         THEN Parsed(F(-DigitsValue(Tail(s))))
    ELSE Unparsed

\* A raw JSON value: None, a number (v) or a string (s).
RawNone == [kind |-> "none", v |-> F(0), s |-> <<>>]
RawNum(q) == [kind |-> "num", v |-> q, s |-> <<>>]
RawStr(s) == [kind |-> "str", v |-> F(0), s |-> s]

\* float(x)
float(x) ==
    CASE x.kind = "num" -> Parsed(x.v)
      [] x.kind = "str" -> float_str(x.s)
      [] OTHER -> Unparsed

\* float(str(x).replace(",", ""))
float_without_commas(x) ==
    CASE x.kind = "num" -> Parsed(x.v)
      [] x.kind = "str" -> float_str(Remove(x.s, ","))
      [] OTHER -> Unparsed

\* bool(x): None, 0 and "" are false
Truthy(x) ==
    CASE x.kind = "num" -> x.v # F(0)
      [] x.kind = "str" -> x.s # <<>>
      [] OTHER -> FALSE

\* sum(values) / len(values)
\* the sum of values[lo .. hi], by halves
RECURSIVE SumSlice(_, _, _)
SumSlice(values, lo, hi) ==
    IF lo > hi THEN F(0)
    ELSE IF lo = hi THEN values[lo]
    ELSE AddQ(SumSlice(values, lo, (lo + hi) \div 2),
              SumSlice(values, ((lo + hi) \div 2) + 1, hi))

SumQ(values) == SumSlice(values, 1, Len(values))

Mean(values) == DivQ(SumQ(values), F(Len(values)))

\* list(reversed(xs))
Reversed(xs) == [i \in 1 .. Len(xs) |-> xs[Len(xs) + 1 - i]]

RECURSIVE Concat(_)
Concat(lists) == IF lists = <<>> THEN <<>> ELSE Head(lists) \o Concat(Tail(lists))

-----------------------------------------------------------------------------
(* The gamelog payload.                                                    *)
(*   gamelog  = [present, names, seasonTypes, events, gamelog, games]      *)
(*              present = FALSE: None, empty or not a dict;                *)
(*              names = <<>>: the "names" list is missing, empty or no list*)
(*   season   = [splitType, displayName (its words), categories]           *)
(*              a category is the list of its events (<<>>: no list)       *)
(*   event    = [stats]  the values indexed like names (<<>>: no list)     *)
(*   game     = [stats, boxscore]  the legacy shape: stats is a list of    *)
(*              [name, value, displayValue]; boxscore is the list of the   *)
(*              passing, rushing, receiving and defensive groups           *)

Str_receivingYards == <<"r", "e", "c", "e", "i", "v", "i", "n", "g", "Y", "a", "r", "d", "s">>
Str_rushingYards == <<"r", "u", "s", "h", "i", "n", "g", "Y", "a", "r", "d", "s">>
Str_passingYards == <<"p", "a", "s", "s", "i", "n", "g", "Y", "a", "r", "d", "s">>

\* wspm_nfl_engine.py: market_to_name
market_to_name ==
    [receiving_yards |-> Str_receivingYards,
     rushing_yards |-> Str_rushingYards,
     passing_yards |-> Str_passingYards]

\* wspm_nfl_engine.py: market_stat_legacy
market_stat_legacy ==
    [receiving_yards |-> {"recYds", "yards", "REC_YDS"},
     rushing_yards |-> {"rushYds", "yards", "RUSH_YDS"},
     passing_yards |-> {"passYds", "yards", "PASS_YDS"}]

\* the two scans of _extract_stat_from_game: the first entry named in stat_names
\* whose value parses
RECURSIVE ScanStats(_, _)
ScanStats(entries, stat_names) ==
    IF entries = <<>> THEN Unparsed
    ELSE LET st == Head(entries)
             val == IF Truthy(st.value) THEN st.value ELSE st.displayValue
             parsed == float(val)
         IN  IF st.name \in stat_names /\ parsed.ok THEN parsed
             ELSE ScanStats(Tail(entries), stat_names)

_extract_stat_from_game(game, stat_names) ==
    LET direct == ScanStats(game.stats, stat_names)
    IN  IF direct.ok THEN direct
        ELSE ScanStats(Concat(game.boxscore), stat_names)

EndsWithRegularSeason(displayName) ==
    /\ Len(displayName) >= 2
    /\ displayName[Len(displayName) - 1] = "Regular"
    /\ displayName[Len(displayName)] = "Season"

IsRegularSeason(st) == st.splitType = "2" \/ EndsWithRegularSeason(st.displayName)

_get_regular_season_events_from_indexed_gamelog(gl) ==
    LET season_types == gl.seasonTypes
    IN  IF \E i \in 1 .. Len(season_types) : IsRegularSeason(season_types[i])
        THEN LET k == CHOOSE i \in 1 .. Len(season_types) :
                          /\ IsRegularSeason(season_types[i])
                          /\ \A j \in 1 .. i - 1 : ~IsRegularSeason(season_types[j])
             IN  Concat(season_types[k].categories)
        ELSE <<>>

\* the loop of _compute_base_projection_legacy over recent_games
RECURSIVE LegacyValues(_, _)
LegacyValues(recent_games, stat_names) ==
    IF recent_games = <<>> THEN <<>>
    ELSE LET val == _extract_stat_from_game(Head(recent_games), stat_names)
             rest == LegacyValues(Tail(recent_games), stat_names)
         IN  IF val.ok THEN <<val.v>> \o rest ELSE rest

\* xs[:n]
Take(xs, n) == IF n >= Len(xs) THEN xs
               ELSE IF n >= 0 THEN SubSeq(xs, 1, n)
               ELSE SubSeq(xs, 1, IF Len(xs) + n > 0 THEN Len(xs) + n ELSE 0)

_compute_base_projection_legacy(gl, market_type, window) ==
    IF market_type \notin DOMAIN market_stat_legacy THEN F(0)
    ELSE LET stat_names == market_stat_legacy[market_type]
             games == IF gl.events # <<>> THEN gl.events
                      ELSE IF gl.gamelog # <<>> THEN gl.gamelog
                      ELSE gl.games
         IN  IF games = <<>> THEN F(0)
             ELSE LET recent_games == Take(Reversed(games), window)
                      values == LegacyValues(recent_games, stat_names)
                  IN  IF values = <<>> THEN F(0) ELSE Mean(values)

\* the loop of the football compute_base_projection_from_gamelog
RECURSIVE NflValues(_, _, _, _)
NflValues(recent_events, stat_idx, window, values) ==
    IF recent_events = <<>> THEN values
    ELSE LET stats_array == Head(recent_events).stats
             rest == Tail(recent_events)
         IN  IF Len(stats_array) <= stat_idx
             THEN NflValues(rest, stat_idx, window, values)
             ELSE LET parsed == float_without_commas(stats_array[stat_idx + 1])
                  IN  IF ~parsed.ok THEN NflValues(rest, stat_idx, window, values)
                      ELSE IF Len(values) + 1 >= window
                           THEN Append(values, parsed.v)
                           ELSE NflValues(rest, stat_idx, window,
                                          Append(values, parsed.v))

\* list.index(x): 0-based, -1 when x is not in the list
IndexOf(xs, x) ==
    IF \E i \in 1 .. Len(xs) : xs[i] = x
    THEN (CHOOSE i \in 1 .. Len(xs) : xs[i] = x /\ \A j \in 1 .. i - 1 : xs[j] # x) - 1
    ELSE -1

\* the football extractor without a vocabulary: the first column, whatever
\* the market
nfl_compute_base_projection_from_gamelog_of_any_market(gl, market_type, window) ==
    IF ~gl.present THEN F(0)
    ELSE LET values == NflValues(Reversed(_get_regular_season_events_from_indexed_gamelog(gl)),
                                 0, window, <<>>)
         IN  IF values = <<>> THEN F(0) ELSE Mean(values)

nfl_compute_base_projection_from_gamelog(gl, market_type, window) ==
    IF ~gl.present THEN F(0)
    ELSE IF market_type \notin DOMAIN market_to_name THEN F(0)
    ELSE LET target_stat_name == market_to_name[market_type]
             stat_names_list == gl.names
             stat_idx == IndexOf(stat_names_list, target_stat_name)
             regular_events == _get_regular_season_events_from_indexed_gamelog(gl)
             values == NflValues(Reversed(regular_events), stat_idx, window, <<>>)
             legacy == _compute_base_projection_legacy(gl, market_type, window)
         IN  IF stat_names_list = <<>> THEN legacy
             ELSE IF stat_idx < 0 THEN legacy
             ELSE IF regular_events = <<>> THEN legacy
             ELSE IF values = <<>> THEN legacy
             ELSE Mean(values)

\* wspm_nba_engine.py: market_aliases
market_aliases ==
    [points |-> <<<<"p", "o", "i", "n", "t", "s">>, <<"p", "t", "s">>>>,
     rebounds |-> <<<<"r", "e", "b", "o", "u", "n", "d", "s">>, <<"r", "e", "b">>, <<"t", "o", "t", "a", "l", "R", "e", "b", "o", "u", "n", "d", "s">>>>,
     assists |-> <<<<"a", "s", "s", "i", "s", "t", "s">>, <<"a", "s", "t">>>>,
     threes_made |-> <<<<"t", "h", "r", "e", "e", "P", "o", "i", "n", "t", "F", "i", "e", "l", "d", "G", "o", "a", "l", "s", "M", "a", "d", "e">>,
                       <<"t", "h", "r", "e", "e", "P", "o", "i", "n", "t", "F", "G", "M">>,
                       <<"3", "p", "t", "F", "i", "e", "l", "d", "G", "o", "a", "l", "s", "M", "a", "d", "e">>,
                       <<"3", "p", "t", "f", "g", "m">>,
                       <<"f", "g", "3", "m">>>>]

\* 0-based index, -1 for None
_find_stat_index(names, aliases) ==
    LET lowered == [i \in 1 .. Len(names) |-> Lower(names[i])]
        Exact(a) == \E i \in 1 .. Len(lowered) : lowered[i] = Lower(aliases[a])
        Partial(i) == \E a \in 1 .. Len(aliases) : Contains(lowered[i], Lower(aliases[a]))
    IN  IF \E a \in 1 .. Len(aliases) : Exact(a)
        THEN LET a0 == CHOOSE a \in 1 .. Len(aliases) :
                           Exact(a) /\ \A b \in 1 .. a - 1 : ~Exact(b)
             IN  IndexOf(lowered, Lower(aliases[a0]))
        ELSE IF \E i \in 1 .. Len(lowered) : Partial(i)
        THEN (CHOOSE i \in 1 .. Len(lowered) :
                  Partial(i) /\ \A j \in 1 .. i - 1 : ~Partial(j)) - 1
        ELSE -1

_extract_regular_season_events(gl) ==
    LET season_types == gl.seasonTypes
    IN  IF \E i \in 1 .. Len(season_types) : IsRegularSeason(season_types[i])
        THEN LET k == CHOOSE i \in 1 .. Len(season_types) :
                          /\ IsRegularSeason(season_types[i])
                          /\ \A j \in 1 .. i - 1 : ~IsRegularSeason(season_types[j])
             IN  Concat(season_types[k].categories)
        ELSE Concat([i \in 1 .. Len(season_types) |-> Concat(season_types[i].categories)])

\* the loop of the basketball compute_base_projection_from_gamelog
RECURSIVE NbaValues(_, _, _, _)
NbaValues(recent_events, stat_idx, window, values) ==
    IF recent_events = <<>> THEN values
    ELSE LET stats_array == Head(recent_events).stats
             rest == Tail(recent_events)
             has == Len(stats_array) > stat_idx
             parsed == IF has THEN float_without_commas(stats_array[stat_idx + 1])
                       ELSE Unparsed
             values2 == IF has THEN Append(values, parsed.v) ELSE values
         IN  IF has /\ ~parsed.ok THEN NbaValues(rest, stat_idx, window, values)
             ELSE IF Len(values2) >= window THEN values2
             ELSE NbaValues(rest, stat_idx, window, values2)

nba_compute_base_projection_from_gamelog(gl, market_type, window) ==
    IF ~gl.present THEN F(0)
    ELSE IF market_type \notin DOMAIN market_aliases THEN F(0)
    ELSE LET aliases == market_aliases[market_type]
             stat_idx == _find_stat_index(gl.names, aliases)
             events == _extract_regular_season_events(gl)
             values == NbaValues(Reversed(events), stat_idx, window, <<>>)
         IN  IF stat_idx < 0 THEN F(0)
             ELSE IF events = <<>> THEN F(0)
             ELSE IF values = <<>> THEN F(0)
             ELSE Mean(values)

-----------------------------------------------------------------------------
(* The player-prop handlers.  A payload carries the request body and the   *)
(* data the provider would return for it:                                  *)
(*   scoreboard = [present, has_events, events]  (present = FALSE: None or *)
(*                empty; has_events: the "events" key exists)              *)
(*   odds_data  = [present, items], an item = [overUnder]                  *)
(* An Optional[float] is [some, v].                                        *)

NoneQ == [some |-> FALSE, v |-> F(0)]
Some(q) == [some |-> TRUE, v |-> q]

\* raise HTTPException(status_code, detail)
HTTPException(handler, status_code, detail) ==
    [handler |-> handler, status |-> status_code, detail |-> detail]

\* next((e for e in events if e.get("id") == event_id), None) is not None
EventFound(events, event_id) == \E i \in 1 .. Len(events) : events[i].id = event_id

\* round(x) to an integer, ties to even: the rounding of the "f" format
RoundHalfEven(q) ==
    LET fl == q.n \div q.d
        twice == 2 * (q.n - fl * q.d)
    IN  IF twice < q.d THEN fl
        ELSE IF twice > q.d THEN fl + 1
        ELSE IF fl % 2 = 0 THEN fl ELSE fl + 1

\* f"{x:.1f}", the printed decimal kept as the number it denotes
Format1f(x) == Q(RoundHalfEven(MulQ(x, F(10))), 10)

\* routes_nfl.py wspm_projection
wspm_projection_margin_pct(edge, book_line) ==
    IF book_line # F(0) THEN MulQ(DivQ(edge, AbsQ(book_line)), F(100)) ELSE F(0)

\* a direction that calls a projection equal to the line OVER
direction_at_or_above(edge) == IF GeQ(edge, F(0)) THEN "OVER" ELSE "UNDER"

wspm_projection_direction(edge) == IF GtQ(edge, F(0)) THEN "OVER" ELSE "UNDER"

\* a model projection that ignores the caller's override
model_projection_without_override(input_data, net_adjust) ==
    AddQ(input_data.base_projection, net_adjust)

wspm_projection_model(input_data, net_adjust) ==
    IF input_data.model_projection.some
    THEN input_data.model_projection.v
    ELSE AddQ(input_data.base_projection, net_adjust)

wspm_projection(input_data) ==
    LET net_adjust == AddQ(AddQ(AddQ(input_data.adj_matchup, input_data.adj_volume),
                                input_data.adj_risk),
                           input_data.adj_tempo)
        projected == wspm_projection_model(input_data, net_adjust)
        edge == SubQ(projected, input_data.book_line)
        margin_pct == wspm_projection_margin_pct(edge, input_data.book_line)
        safety_margin_value == AbsQ(edge)
        safety_margin_pct == AbsQ(margin_pct)
    IN  [handler |-> "wspm_projection",
         status |-> 200,
         book_line |-> input_data.book_line,
         base_projection |-> input_data.base_projection,
         adj_matchup |-> input_data.adj_matchup,
         adj_volume |-> input_data.adj_volume,
         adj_risk |-> input_data.adj_risk,
         adj_tempo |-> input_data.adj_tempo,
         net_adjust |-> net_adjust,
         wspm_projection |-> projected,
         edge |-> edge,
         margin_pct |-> margin_pct,
         safety_margin_value |-> safety_margin_value,
         safety_margin_pct |-> safety_margin_pct,
         prob_cover |-> wspm_projection_prob_cover(safety_margin_pct),
         direction |-> wspm_projection_direction(edge),
         confidence |-> wspm_projection_confidence(safety_margin_pct)]

\* routes_nfl.py wspm_auto_projection
wspm_auto_projection_game_total(odds_data) ==
    IF odds_data.present /\ odds_data.items # <<>>
    THEN LET ou_raw == odds_data.items[1].overUnder
             parsed == float(ou_raw)
         IN  IF ou_raw.kind # "none" /\ parsed.ok THEN Some(parsed.v) ELSE NoneQ
    ELSE NoneQ

wspm_auto_projection_adj_tempo(game_total) ==
    IF game_total.some /\ GeQ(game_total.v, F(50)) THEN F(3)
    ELSE IF game_total.some /\ GeQ(game_total.v, F(46)) THEN F(1)
    ELSE F(0)

\* a margin without the zero-line case: the edge itself, in percent
margin_pct_of_edge_alone(edge, book_line) ==
    IF book_line # F(0) THEN MulQ(DivQ(edge, AbsQ(book_line)), F(100))
    ELSE MulQ(edge, F(100))

wspm_auto_projection_margin_pct(edge, book_line) ==
    IF book_line # F(0) THEN MulQ(DivQ(edge, AbsQ(book_line)), F(100)) ELSE F(0)

wspm_auto_projection_direction(edge) == IF GtQ(edge, F(0)) THEN "OVER" ELSE "UNDER"

wspm_auto_projection_evaluate(p, game_total, base_projection) ==
    LET adj_tempo == wspm_auto_projection_adj_tempo(game_total)
        adj_matchup == F(0)
        adj_volume == F(0)
        adj_risk == F(0)
        net_adjust == AddQ(AddQ(AddQ(adj_matchup, adj_volume), adj_risk), adj_tempo)
        projected == AddQ(base_projection, net_adjust)
        book_line == p.book_line
        edge == SubQ(projected, book_line)
        margin_pct == wspm_auto_projection_margin_pct(edge, book_line)
        safety_margin_value == AbsQ(edge)
        safety_margin_pct == AbsQ(margin_pct)
        prob_cover == wspm_auto_projection_prob_cover(safety_margin_pct)
        direction == wspm_auto_projection_direction(edge)
        confidence == wspm_auto_projection_confidence(safety_margin_pct)
    IN  IF LeQ(base_projection, F(0))
        THEN HTTPException("wspm_auto_projection", 422, "base_projection")
        ELSE [handler |-> "wspm_auto_projection",
              status |-> 200,
              book_line |-> book_line,
              base_projection |-> base_projection,
              adj_matchup |-> adj_matchup,
              adj_volume |-> adj_volume,
              adj_risk |-> adj_risk,
              adj_tempo |-> adj_tempo,
              net_adjust |-> net_adjust,
              wspm_projection |-> projected,
              edge |-> edge,
              margin_pct |-> margin_pct,
              safety_margin_value |-> safety_margin_value,
              safety_margin_pct |-> safety_margin_pct,
              prob_cover |-> prob_cover,
              direction |-> direction,
              confidence |-> confidence]

wspm_auto_projection(p) ==
    LET scoreboard == p.scoreboard
    IN  IF ~scoreboard.present \/ ~scoreboard.has_events
        THEN HTTPException("wspm_auto_projection", 502, "scoreboard")
        ELSE IF ~EventFound(scoreboard.events, p.event_id)
        THEN HTTPException("wspm_auto_projection", 404, "event")
        ELSE wspm_auto_projection_evaluate(p, wspm_auto_projection_game_total(p.odds_data),
                                 nfl_compute_base_projection_from_gamelog(p.nfl_gamelog, p.market_type, 5))

\* routes_nfl.py wspm_auto_projection_report
wspm_auto_projection_report_game_total(odds_data) ==
    IF odds_data.present /\ odds_data.items # <<>>
    THEN LET ou_raw == odds_data.items[1].overUnder
             parsed == float(ou_raw)
         IN  IF ou_raw.kind # "none" /\ parsed.ok THEN Some(parsed.v) ELSE NoneQ
    ELSE NoneQ

wspm_auto_projection_report_adj_tempo(game_total) ==
    IF game_total.some /\ GeQ(game_total.v, F(50)) THEN F(3)
    ELSE IF game_total.some /\ GeQ(game_total.v, F(46)) THEN F(1)
    ELSE F(0)

wspm_auto_projection_report_margin_pct(edge, book_line) ==
    IF book_line # F(0) THEN MulQ(DivQ(edge, AbsQ(book_line)), F(100)) ELSE F(0)

wspm_auto_projection_report_direction(edge) == IF GtQ(edge, F(0)) THEN "OVER" ELSE "UNDER"

wspm_auto_projection_report_evaluate(p, game_total, base_projection) ==
    LET adj_tempo == wspm_auto_projection_report_adj_tempo(game_total)
        adj_matchup == F(0)
        adj_volume == F(0)
        adj_risk == F(0)
        net_adjust == AddQ(AddQ(AddQ(adj_matchup, adj_volume), adj_risk), adj_tempo)
        projected == AddQ(base_projection, net_adjust)
        book_line == p.book_line
        edge == SubQ(projected, book_line)
        margin_pct == wspm_auto_projection_report_margin_pct(edge, book_line)
        safety_margin_value == AbsQ(edge)
        safety_margin_pct == AbsQ(margin_pct)
        prob_cover == wspm_auto_projection_report_prob_cover(safety_margin_pct)
        direction == wspm_auto_projection_report_direction(edge)
        confidence == wspm_auto_projection_report_confidence(safety_margin_pct)
    IN  IF LeQ(base_projection, F(0))
        THEN HTTPException("wspm_auto_projection_report", 422, "base_projection")
        ELSE [handler |-> "wspm_auto_projection_report",
              status |-> 200,
              book_line |-> book_line,
              base_projection |-> base_projection,
              adj_matchup |-> adj_matchup,
              adj_volume |-> adj_volume,
              adj_risk |-> adj_risk,
              adj_tempo |-> adj_tempo,
              net_adjust |-> net_adjust,
              wspm_projection |-> projected,
              edge |-> edge,
              margin_pct |-> margin_pct,
              safety_margin_value |-> safety_margin_value,
              safety_margin_pct |-> safety_margin_pct,
              prob_cover |-> prob_cover,
              pick |-> [direction |-> direction, line |-> Format1f(book_line)],
              confidence |-> confidence,
              game_total |-> game_total]

wspm_auto_projection_report(p) ==
    LET scoreboard == p.scoreboard
    IN  IF ~scoreboard.present \/ ~scoreboard.has_events
        THEN HTTPException("wspm_auto_projection_report", 502, "scoreboard")
        ELSE IF ~EventFound(scoreboard.events, p.event_id)
        THEN HTTPException("wspm_auto_projection_report", 404, "event")
        ELSE wspm_auto_projection_report_evaluate(p, wspm_auto_projection_report_game_total(p.odds_data),
                                        nfl_compute_base_projection_from_gamelog(p.nfl_gamelog, p.market_type, 5))

\* routes_nba.py nba_wspm_auto_projection
nba_wspm_auto_projection_game_total(odds_data) ==
    IF odds_data.present /\ odds_data.items # <<>>
    THEN LET ou_raw == odds_data.items[1].overUnder
             parsed == float(ou_raw)
         IN  IF ou_raw.kind # "none" /\ parsed.ok THEN Some(parsed.v) ELSE NoneQ
    ELSE NoneQ

\* a basketball tempo step with the football thresholds
adj_tempo_with_football_steps(game_total) ==
    IF game_total.some /\ GeQ(game_total.v, F(50)) THEN F(3)
    ELSE IF game_total.some /\ GeQ(game_total.v, F(46)) THEN F(1)
    ELSE F(0)

nba_wspm_auto_projection_adj_tempo(game_total) ==
    IF game_total.some /\ GeQ(game_total.v, F(235)) THEN F(3)
    ELSE IF game_total.some /\ GeQ(game_total.v, F(225)) THEN Q(3, 2)
    ELSE F(0)

nba_wspm_auto_projection_margin_pct(edge, book_line) ==
    IF book_line # F(0) THEN MulQ(DivQ(edge, AbsQ(book_line)), F(100)) ELSE F(0)

nba_wspm_auto_projection_direction(edge) == IF GtQ(edge, F(0)) THEN "OVER" ELSE "UNDER"

nba_wspm_auto_projection_evaluate(p, game_total, base_projection) ==
    LET adj_tempo == nba_wspm_auto_projection_adj_tempo(game_total)
        adj_matchup == F(0)
        adj_volume == F(0)
        adj_risk == F(0)
        net_adjust == AddQ(AddQ(AddQ(adj_matchup, adj_volume), adj_risk), adj_tempo)
        projected == AddQ(base_projection, net_adjust)
        book_line == p.book_line
        edge == SubQ(projected, book_line)
        margin_pct == nba_wspm_auto_projection_margin_pct(edge, book_line)
        safety_margin_value == AbsQ(edge)
        safety_margin_pct == AbsQ(margin_pct)
        prob_cover == nba_wspm_auto_projection_prob_cover(safety_margin_pct)
        direction == nba_wspm_auto_projection_direction(edge)
        confidence == nba_wspm_auto_projection_confidence(safety_margin_pct)
    IN  IF LeQ(base_projection, F(0))
        THEN HTTPException("nba_wspm_auto_projection", 422, "base_projection")
        ELSE [handler |-> "nba_wspm_auto_projection",
              status |-> 200,
              book_line |-> book_line,
              base_projection |-> base_projection,
              adj_matchup |-> adj_matchup,
              adj_volume |-> adj_volume,
              adj_risk |-> adj_risk,
              adj_tempo |-> adj_tempo,
              net_adjust |-> net_adjust,
              wspm_projection |-> projected,
              edge |-> edge,
              margin_pct |-> margin_pct,
              safety_margin_value |-> safety_margin_value,
              safety_margin_pct |-> safety_margin_pct,
              prob_cover |-> prob_cover,
              direction |-> direction,
              confidence |-> confidence]

nba_wspm_auto_projection(p) ==
    LET scoreboard == p.scoreboard
    IN  IF ~scoreboard.present
        THEN HTTPException("nba_wspm_auto_projection", 502, "scoreboard")
        ELSE IF ~EventFound(scoreboard.events, p.event_id)
        THEN HTTPException("nba_wspm_auto_projection", 404, "event")
        ELSE IF ~AllDigits(Strip(p.athlete_id))
        THEN HTTPException("nba_wspm_auto_projection", 422, "athlete_id")
        ELSE nba_wspm_auto_projection_evaluate(p, nba_wspm_auto_projection_game_total(p.odds_data),
                                     nba_compute_base_projection_from_gamelog(p.nba_gamelog, p.market_type, 5))

\* routes_nba.py nba_wspm_auto_projection_report
nba_wspm_auto_projection_report_game_total(odds_data) ==
    IF odds_data.present /\ odds_data.items # <<>>
    THEN LET ou_raw == odds_data.items[1].overUnder
             parsed == float(ou_raw)
         IN  IF ou_raw.kind # "none" /\ parsed.ok THEN Some(parsed.v) ELSE NoneQ
    ELSE NoneQ

nba_wspm_auto_projection_report_adj_tempo(game_total) ==
    IF game_total.some /\ GeQ(game_total.v, F(235)) THEN F(3)
    ELSE IF game_total.some /\ GeQ(game_total.v, F(225)) THEN Q(3, 2)
    ELSE F(0)

nba_wspm_auto_projection_report_margin_pct(edge, book_line) ==
    IF book_line # F(0) THEN MulQ(DivQ(edge, AbsQ(book_line)), F(100)) ELSE F(0)

nba_wspm_auto_projection_report_direction(edge) == IF GtQ(edge, F(0)) THEN "OVER" ELSE "UNDER"

nba_wspm_auto_projection_report_evaluate(p, game_total, base_projection) ==
    LET adj_tempo == nba_wspm_auto_projection_report_adj_tempo(game_total)
        adj_matchup == F(0)
        adj_volume == F(0)
        adj_risk == F(0)
        net_adjust == AddQ(AddQ(AddQ(adj_matchup, adj_volume), adj_risk), adj_tempo)
        projected == AddQ(base_projection, net_adjust)
        book_line == p.book_line
        edge == SubQ(projected, book_line)
        margin_pct == nba_wspm_auto_projection_report_margin_pct(edge, book_line)
        safety_margin_value == AbsQ(edge)
        safety_margin_pct == AbsQ(margin_pct)
        prob_cover == nba_wspm_auto_projection_report_prob_cover(safety_margin_pct)
        direction == nba_wspm_auto_projection_report_direction(edge)
        confidence == nba_wspm_auto_projection_report_confidence(safety_margin_pct)
    IN  IF LeQ(base_projection, F(0))
        THEN HTTPException("nba_wspm_auto_projection_report", 422, "base_projection")
        ELSE [handler |-> "nba_wspm_auto_projection_report",
              status |-> 200,
              book_line |-> book_line,
              base_projection |-> base_projection,
              adj_matchup |-> adj_matchup,
              adj_volume |-> adj_volume,
              adj_risk |-> adj_risk,
              adj_tempo |-> adj_tempo,
              net_adjust |-> net_adjust,
              wspm_projection |-> projected,
              edge |-> edge,
              margin_pct |-> margin_pct,
              safety_margin_value |-> safety_margin_value,
              safety_margin_pct |-> safety_margin_pct,
              prob_cover |-> prob_cover,
              pick |-> [direction |-> direction, line |-> Format1f(book_line)],
              confidence |-> confidence,
              game_total |-> game_total]

nba_wspm_auto_projection_report(p) ==
    LET scoreboard == p.scoreboard
    IN  IF ~scoreboard.present
        THEN HTTPException("nba_wspm_auto_projection_report", 502, "scoreboard")
        ELSE IF ~EventFound(scoreboard.events, p.event_id)
        THEN HTTPException("nba_wspm_auto_projection_report", 404, "event")
        ELSE IF ~AllDigits(Strip(p.athlete_id))
        THEN HTTPException("nba_wspm_auto_projection_report", 422, "athlete_id")
        ELSE nba_wspm_auto_projection_report_evaluate(p, nba_wspm_auto_projection_report_game_total(p.odds_data),
                                            nba_compute_base_projection_from_gamelog(p.nba_gamelog, p.market_type, 5))

-----------------------------------------------------------------------------
(* The football game projection.  scoreboards[w] is the scoreboard of week *)
(* w; an event = [id, competitors, completed] where competitors is the     *)
(* competitor list of its first competition (<<>> when it has none) and a  *)
(* competitor = [homeAway, abbr, score].                                   *)

\* the "for side in (home, away)" loop: the (pf, pa) pair appended, if any
SidePoints(ev, team_abbr) ==
    LET home == ev.competitors[1]
        away == ev.competitors[2]
        Pair(side, other) ==
            IF side.abbr = team_abbr /\ float(side.score).ok /\ float(other.score).ok
            THEN <<[pf |-> float(side.score).v, pa |-> float(other.score).v]>>
            ELSE <<>>
    IN  IF Pair(home, away) # <<>> THEN Pair(home, away) ELSE Pair(away, home)

\* the loop over the events of one scoreboard
RECURSIVE CollectEvents(_, _, _, _)
CollectEvents(events, team_abbr, window, points) ==
    IF events = <<>> THEN points
    ELSE LET ev == Head(events)
             points2 == points \o SidePoints(ev, team_abbr)
         IN  IF Len(ev.competitors) < 2 \/ ~ev.completed
             THEN CollectEvents(Tail(events), team_abbr, window, points)
             ELSE IF Len(points2) >= window THEN points2
             ELSE CollectEvents(Tail(events), team_abbr, window, points2)

\* the loop over the weeks current_week - 1 down to 1
RECURSIVE CollectWeeks(_, _, _, _, _)
CollectWeeks(scoreboards, wk, team_abbr, window, points) ==
    IF wk < 1 THEN points
    ELSE LET sb == scoreboards[wk]
             points2 == CollectEvents(sb.events, team_abbr, window, points)
         IN  IF ~sb.present \/ ~sb.has_events
             THEN CollectWeeks(scoreboards, wk - 1, team_abbr, window, points)
             ELSE IF Len(points2) >= window THEN points2
             ELSE CollectWeeks(scoreboards, wk - 1, team_abbr, window, points2)

_collect_recent_team_points(scoreboards, team_abbr, current_week, games_window_) ==
    LET points == CollectWeeks(scoreboards, current_week - 1, team_abbr,
                               games_window_, <<>>)
        points_for == [i \in 1 .. Len(points) |-> points[i].pf]
        points_against == [i \in 1 .. Len(points) |-> points[i].pa]
    IN  IF points = <<>> THEN [pf |-> F(0), pa |-> F(0)]
        ELSE [pf |-> Mean(points_for), pa |-> Mean(points_against)]

ValueError(what) == [handler |-> "compute_game_projection", status |-> 404, detail |-> what]

game_margin_total_pct(edge_total, book_total) ==
    IF book_total # F(0) THEN MulQ(DivQ(edge_total, AbsQ(book_total)), F(100)) ELSE F(0)

game_margin_spread_pct(edge_spread, book_spread) ==
    IF book_spread # F(0) THEN MulQ(DivQ(edge_spread, AbsQ(book_spread)), F(100))
    ELSE IF edge_spread # F(0) THEN MulQ(DivQ(edge_spread, F(3)), F(100))
    ELSE F(0)

game_direction_total(edge_total) == IF GtQ(edge_total, F(0)) THEN "OVER" ELSE "UNDER"

game_side_spread(model_spread, book_spread) ==
    IF GtQ(model_spread, book_spread) THEN "HOME" ELSE "AWAY"

\* the last competitor with the given homeAway, as [found, abbr]
TeamOf(competitors, side) ==
    IF \E i \in 1 .. Len(competitors) : competitors[i].homeAway = side
    THEN LET k == CHOOSE i \in 1 .. Len(competitors) :
                      /\ competitors[i].homeAway = side
                      /\ \A j \in i + 1 .. Len(competitors) : competitors[j].homeAway # side
         IN  [found |-> TRUE, abbr |-> competitors[k].abbr]
    ELSE [found |-> FALSE, abbr |-> ""]

\* the edges, margins and tiers of the projected total and spread
game_projection_evaluate(p, home_proj, away_proj, model_total, model_spread) ==
    LET book_total == p.book_total
        book_spread == p.book_spread
        edge_total == SubQ(model_total, book_total)
        edge_spread == SubQ(model_spread, book_spread)
        margin_total_pct == game_margin_total_pct(edge_total, book_total)
        margin_spread_pct == game_margin_spread_pct(edge_spread, book_spread)
        safety_total_pct == AbsQ(margin_total_pct)
        safety_spread_pct == AbsQ(margin_spread_pct)
    IN  [handler |-> "compute_game_projection",
         status |-> 200,
         book_total |-> book_total,
         book_spread |-> book_spread,
         implied_home_total |-> DivQ(AddQ(book_total, book_spread), F(2)),
         implied_away_total |-> DivQ(SubQ(book_total, book_spread), F(2)),
         model_home_total |-> home_proj,
         model_away_total |-> away_proj,
         model_total |-> model_total,
         model_spread |-> model_spread,
         edge_total |-> edge_total,
         edge_spread |-> edge_spread,
         margin_total_pct |-> margin_total_pct,
         margin_spread_pct |-> margin_spread_pct,
         safety_total |-> AbsQ(edge_total),
         safety_total_pct |-> safety_total_pct,
         safety_spread |-> AbsQ(edge_spread),
         safety_spread_pct |-> safety_spread_pct,
         prob_total |-> _prob_from_safety(safety_total_pct),
         prob_spread |-> _prob_from_safety(safety_spread_pct),
         direction_total |-> game_direction_total(edge_total),
         side_spread |-> game_side_spread(model_spread, book_spread),
         confidence_total |-> _conf(safety_total_pct),
         confidence_spread |-> _conf(safety_spread_pct),
         games_window |-> p.games_window]

\* the projected points from the recent means alone, whatever they are
game_projection_model_of_means(p, home, away) ==
    LET home_proj == IF GtQ(away.pa, F(0)) THEN DivQ(AddQ(home.pf, away.pa), F(2))
                     ELSE home.pf
        away_proj == IF GtQ(home.pa, F(0)) THEN DivQ(AddQ(away.pf, home.pa), F(2))
                     ELSE away.pf
    IN  game_projection_evaluate(p, home_proj, away_proj, AddQ(home_proj, away_proj),
                                 SubQ(home_proj, away_proj))

\* the projected points from the recent means of the two teams
game_projection_model(p, home, away) ==
    LET book_total == p.book_total
        book_spread == p.book_spread
        no_history == home.pf = F(0) /\ away.pf = F(0)
        home_proj == IF no_history THEN DivQ(AddQ(book_total, book_spread), F(2))
                     ELSE IF GtQ(away.pa, F(0)) THEN DivQ(AddQ(home.pf, away.pa), F(2))
                     ELSE home.pf
        away_proj == IF no_history THEN DivQ(SubQ(book_total, book_spread), F(2))
                     ELSE IF GtQ(home.pa, F(0)) THEN DivQ(AddQ(away.pf, home.pa), F(2))
                     ELSE away.pf
    IN  game_projection_evaluate(p, home_proj, away_proj,
                                 IF no_history THEN book_total
                                 ELSE AddQ(home_proj, away_proj),
                                 IF no_history THEN book_spread
                                 ELSE SubQ(home_proj, away_proj))

\* the home and away teams of the event, and their recent points
game_projection_of_teams(p, home_team, away_team) ==
    IF ~home_team.found \/ ~away_team.found
    THEN ValueError("home/away")
    ELSE game_projection_model(
             p,
             _collect_recent_team_points(p.scoreboards, home_team.abbr, p.week,
                                         p.games_window),
             _collect_recent_team_points(p.scoreboards, away_team.abbr, p.week,
                                         p.games_window))

game_projection_of_event(p, competitors) ==
    IF Len(competitors) < 2
    THEN ValueError("competitors")
    ELSE game_projection_of_teams(p, TeamOf(competitors, "home"),
                                  TeamOf(competitors, "away"))

compute_game_projection(p) ==
    LET scoreboard == p.scoreboards[p.week]
        k == CHOOSE i \in 1 .. Len(scoreboard.events) :
                 /\ scoreboard.events[i].id = p.event_id
                 /\ \A j \in 1 .. i - 1 : scoreboard.events[j].id # p.event_id
    IN  IF ~scoreboard.present \/ ~scoreboard.has_events
        THEN ValueError("scoreboard")
        ELSE IF ~EventFound(scoreboard.events, p.event_id)
        THEN ValueError("event")
        ELSE game_projection_of_event(p, scoreboard.events[k].competitors)

-----------------------------------------------------------------------------
(* The soccer team record.  A competitor carries its records, each a       *)
(* [type, summary]: type is a string (<<>> when missing, None or empty),   *)
(* summary a raw JSON value.                                               *)

DefaultRecordData == [w |-> 0, d |-> 0, l |-> 0, games |-> 0, ppg |-> Q(1, 2)]

AcceptedRecordTypes == {<<"t", "o", "t", "a", "l">>, <<"l", "e", "a", "g", "u", "e">>, <<"o", "v", "e", "r", "a", "l", "l">>, <<>>}

\* the loop over the records: the summary of the first accepted record whose
\* summary is truthy, else the summary of the last accepted record
RECURSIVE ScanRecords(_, _)
ScanRecords(records, summary_str) ==
    IF records = <<>> THEN summary_str
    ELSE LET r == Head(records)
         IN  IF Lower(r.type) \in AcceptedRecordTypes
             THEN IF Truthy(r.summary) THEN r.summary
                  ELSE ScanRecords(Tail(records), r.summary)
             ELSE ScanRecords(Tail(records), summary_str)

\* a strength that is not clamped
ppg_unclamped(pts, games) == Q(pts, 3 * games)

record_ppg(pts, games) == MaxQ(Q(1, 5), MinQ(Q(19, 20), Q(pts, 3 * games)))

record_data_of_parts(parts) ==
    LET w == int(parts[1])
        l == int(parts[2])
        d == IF Len(parts) >= 3 THEN int(parts[3]) ELSE [ok |-> TRUE, v |-> 0]
        games == w.v + l.v + d.v
        pts == 3 * w.v + d.v
    IN  IF ~w.ok \/ ~l.ok \/ ~d.ok THEN DefaultRecordData
        ELSE IF games <= 0 THEN DefaultRecordData
        ELSE [w |-> w.v, d |-> d.v, l |-> l.v, games |-> games,
              ppg |-> record_ppg(pts, games)]

_extract_record_data(competitor_) ==
    LET summary_str == ScanRecords(competitor_.records, RawNone)
    IN  IF ~Truthy(summary_str) \/ summary_str.kind # "str" THEN DefaultRecordData
        ELSE LET parts == Split(Remove(summary_str.s, " "), "-")
             IN  IF Len(parts) < 2 THEN DefaultRecordData
                 ELSE record_data_of_parts(parts)

-----------------------------------------------------------------------------
(* routes_soccer.py: the Bayesian goal-rate model.                         *)

league_total_prior == Q(13, 5)

total_prior_of_any_total(book_over_under) ==
    IF book_over_under.some
    THEN AddQ(MulQ(Q(7, 10), book_over_under.v), MulQ(Q(3, 10), league_total_prior))
    ELSE league_total_prior

\* the prior total: the market's total blended with the league's, or the
\* league's alone
total_prior(book_over_under) ==
    IF book_over_under.some /\ GtQ(book_over_under.v, F(0))
    THEN AddQ(MulQ(Q(7, 10), book_over_under.v), MulQ(Q(3, 10), league_total_prior))
    ELSE league_total_prior

prior_lambda_home(total_prior_) == MulQ(total_prior_, Q(11, 20))
prior_lambda_away(total_prior_) == MulQ(total_prior_, Q(9, 20))

\* h_strength = h_ppg - 0.5, a_strength = a_ppg - 0.5
strength(ppg) == SubQ(ppg, Q(1, 2))

base_each(total_prior_) == DivQ(total_prior_, F(2))

lambda_home_raw(total_prior_, h_ppg, a_ppg) ==
    MaxQ(Q(1, 5),
         MulQ(base_each(total_prior_),
              AddQ(SubQ(AddQ(F(1), MulQ(Q(9, 10), strength(h_ppg))),
                        MulQ(Q(1, 2), strength(a_ppg))),
                   Q(2, 25))))

lambda_away_raw(total_prior_, h_ppg, a_ppg) ==
    MaxQ(Q(1, 5),
         MulQ(base_each(total_prior_),
              SubQ(SubQ(AddQ(F(1), MulQ(Q(9, 10), strength(a_ppg))),
                        MulQ(Q(1, 2), strength(h_ppg))),
                   Q(1, 50))))

prior_weight == F(5)

\* the shrinkage with the weights exchanged: the prior weighted by the games
\* played and the raw rate by the pseudo-count
lambda_shrunk_towards_raw(lambda_raw, games, prior_lambda) ==
    DivQ(AddQ(MulQ(lambda_raw, prior_weight), MulQ(prior_lambda, F(games))),
         MaxQ(AddQ(F(games), prior_weight), F(1)))

\* the shrinkage of a raw rate towards its prior by the games played
lambda_shrunk(lambda_raw, games, prior_lambda) ==
    DivQ(AddQ(MulQ(lambda_raw, F(games)), MulQ(prior_lambda, prior_weight)),
         MaxQ(AddQ(F(games), prior_weight), F(1)))

lambda_unclamped(lambda_shrunk_) == lambda_shrunk_

\* max(0.2, min(3.8, lambda_post))
lambda_post(lambda_shrunk_) == MaxQ(Q(1, 5), MinQ(Q(19, 5), lambda_shrunk_))

\* the locals of _compute_bayesian_lambdas at its return; the dict it returns
\* is their lambda_home and lambda_away
bayesian_lambdas_of(total_prior_, home_stats, away_stats) ==
    [total_prior |-> total_prior_,
     prior_lambda_home |-> prior_lambda_home(total_prior_),
     prior_lambda_away |-> prior_lambda_away(total_prior_),
     h_games |-> home_stats.games,
     a_games |-> away_stats.games,
     lambda_home |->
         lambda_post(lambda_shrunk(lambda_home_raw(total_prior_, home_stats.ppg,
                                                   away_stats.ppg),
                                   home_stats.games, prior_lambda_home(total_prior_))),
     lambda_away |->
         lambda_post(lambda_shrunk(lambda_away_raw(total_prior_, home_stats.ppg,
                                                   away_stats.ppg),
                                   away_stats.games, prior_lambda_away(total_prior_)))]

_compute_bayesian_lambdas(book_over_under, home_comp, away_comp) ==
    bayesian_lambdas_of(total_prior(book_over_under), _extract_record_data(home_comp),
                        _extract_record_data(away_comp))

-----------------------------------------------------------------------------
(* routes_soccer.py: the Poisson engine.                                   *)
(*                                                                         *)
(* exp(-lam) is irrational, so the float returned by _poisson_pmf is       *)
(* modelled to a finite precision: a multiple of 1 / PmfScale that is      *)
(* never above exp(-lam) * lam**k / k!, as the floats of the code never    *)
(* add up to more than the mass they approximate.  The arithmetic on these *)
(* values is exact.                                                        *)

PmfScale == 10000

\* the quotient rounded up
CeilDiv(qr) == IF qr.r = 0 THEN qr.q ELSE qr.q + 1

\* the sum of xs[lo .. hi], by halves
RECURSIVE SumInt(_, _, _)
SumInt(xs, lo, hi) ==
    IF lo > hi THEN 0
    ELSE IF lo = hi THEN xs[lo]
    ELSE SumInt(xs, lo, (lo + hi) \div 2) + SumInt(xs, ((lo + hi) \div 2) + 1, hi)

\* (a * PmfScale) \div c and (a * PmfScale) % c for naturals a < c, by the
\* base-4 digits of PmfScale so that no intermediate value exceeds 7 * c
WideMulDivMod(a, c) ==
    LET step[i \in 0 .. 7, q \in Nat, r \in Nat] ==
            IF i = 0 THEN [q |-> q, r |-> r]
            ELSE step[i - 1,
                      (4 * q) + (((4 * r) + (((PmfScale \div (4 ^ (i - 1))) % 4) * a)) \div c),
                      ((4 * r) + (((PmfScale \div (4 ^ (i - 1))) % 4) * a)) % c]
    IN  step[7, 0, 0]

\* a float x >= 0 in units of 1 / PmfScale: the whole units and the rest
InUnits(x) ==
    [q |-> ((x.n \div x.d) * PmfScale) + WideMulDivMod(x.n % x.d, x.d).q,
     r |-> WideMulDivMod(x.n % x.d, x.d).r]

\* the series of exp(x) for 0 < x <= 1, where x is x_up units: the sum of
\* x**k / k! for k = 0, 1, ... in units of 1 / PmfScale, each rounded up, to a
\* term of one unit or less that the later terms at least halve, which
\* together are then below the one unit that is added for them
ExpSum(x_up) ==
    LET sum[k \in Nat, term \in Nat] ==
            IF term <= 1 /\ 2 * x_up <= PmfScale * (k + 1) THEN term + 1
            ELSE term + sum[k + 1, ((term * x_up) + (PmfScale * (k + 1)) - 1)
                                       \div (PmfScale * (k + 1))]
    IN  sum[0, PmfScale]

\* math.exp(x) for -1 <= x <= 0: 1 over the series of exp(-x), rounded down
exp_fraction(x) ==
    IF x = F(0) THEN PmfScale
    ELSE (PmfScale * PmfScale) \div ExpSum(CeilDiv(InUnits(Q(-x.n, x.d))))

\* e * exp(-1)**k, rounded down at each product
exp_times[k \in Nat, e \in Nat] ==
    IF k = 0 THEN e ELSE exp_times[k - 1, (e * exp_fraction(F(-1))) \div PmfScale]

\* math.exp(x) for x <= 0, in units of 1 / PmfScale and never above exp(x):
\* exp(-1) to the whole part of -x times exp of the rest; below exp(-8),
\* which is less than 4 units, it is 0
exp(x) ==
    IF LeQ(x, F(-8)) THEN 0
    ELSE exp_times[(-x.n) \div x.d, exp_fraction(AddQ(x, F((-x.n) \div x.d)))]

\* the float returned, in units of 1 / PmfScale: exp(-lam) * lam**j / j! for
\* j = 0 .. k, each rounded down, the term of j + 1 being the term of j times
\* lam / (j + 1)
_poisson_pmf(k, lam) ==
    LET lam_down == InUnits(lam).q
        term[j \in 0 .. k, t \in Nat] ==
            IF j = k THEN t ELSE term[j + 1, (t * lam_down) \div (PmfScale * (j + 1))]
    IN  IF k < 0 THEN 0 ELSE term[0, exp(Q(-lam.n, lam.d))]

pmf_tail_dropped(pmf_head) == 0

\* pmf[max_goals] = max(0.0, 1.0 - sum(pmf[:-1])), in units of 1 / PmfScale
pmf_tail(pmf_head) ==
    IF PmfScale - SumInt(pmf_head, 1, Len(pmf_head)) > 0
    THEN PmfScale - SumInt(pmf_head, 1, Len(pmf_head))
    ELSE 0

pmf_with_tail(pmf_head) == Append(pmf_head, pmf_tail(pmf_head))

\* pmf_home, pmf_away in units of 1 / PmfScale: index k + 1 holds pmf[k]
pmf_of(lam, max_goals) ==
    pmf_with_tail([k \in 1 .. max_goals |-> _poisson_pmf(k - 1, lam)] \o <<>>)

\* the cells of the joint matrix in the order of the two loops
Cells(max_goals) ==
    [c \in 1 .. (max_goals + 1) * (max_goals + 1) |->
        [i |-> (c - 1) \div (max_goals + 1), j |-> (c - 1) % (max_goals + 1)]]

\* p_ij = pmf_home[i] * pmf_away[j], in units of 1 / PmfScale^2
p_ij(pmf_home, pmf_away, cell) == pmf_home[cell.i + 1] * pmf_away[cell.j + 1]

\* total = min(i + j, max_total)
total_of(cell, max_total) ==
    IF cell.i + cell.j > max_total THEN max_total ELSE cell.i + cell.j

\* the sum of p_ij over the cells of one kind
SumCells(joint, cells, Kind(_)) ==
    SumInt([c \in 1 .. Len(cells) |-> IF Kind(cells[c]) THEN joint[c] ELSE 0],
           1, Len(cells))

\* p_total: index g + 1 holds p_total[g]
p_total_of(joint, cells, max_total) ==
    [g \in 1 .. max_total + 1 |->
        LET Totals(cell) == total_of(cell, max_total) = g - 1
        IN  SumCells(joint, cells, Totals)]

HomeWins(cell) == cell.i > cell.j
Drawn(cell) == cell.i = cell.j
AwayWins(cell) == cell.i < cell.j

\* a value of p units of 1 / PmfScale^2 as a float
Joint(p) == Q(p, PmfScale * PmfScale)

\* p /= s1x2 when s1x2 > 0
normalised(p, s1x2) == IF s1x2 > 0 THEN Q(p, s1x2) ELSE Joint(p)

\* the locals at the return, as floats
score_matrix_normalised(pmf_home, pmf_away, p_total, p_home_win, p_draw, p_away_win) ==
    [pmf_home |-> [k \in 1 .. Len(pmf_home) |-> Q(pmf_home[k], PmfScale)],
     pmf_away |-> [k \in 1 .. Len(pmf_away) |-> Q(pmf_away[k], PmfScale)],
     p_total |-> [g \in 1 .. Len(p_total) |-> Joint(p_total[g])],
     p_home_win |-> normalised(p_home_win, p_home_win + p_draw + p_away_win),
     p_draw |-> normalised(p_draw, p_home_win + p_draw + p_away_win),
     p_away_win |-> normalised(p_away_win, p_home_win + p_draw + p_away_win)]

score_matrix_of_joint(pmf_home, pmf_away, joint, cells, max_total) ==
    score_matrix_normalised(pmf_home, pmf_away,
                            p_total_of(joint, cells, max_total) \o <<>>,
                            SumCells(joint, cells, HomeWins),
                            SumCells(joint, cells, Drawn),
                            SumCells(joint, cells, AwayWins))

score_matrix_of_pmf(pmf_home, pmf_away, cells, max_total) ==
    score_matrix_of_joint(pmf_home, pmf_away,
                          [c \in 1 .. Len(cells) |-> p_ij(pmf_home, pmf_away, cells[c])]
                              \o <<>>,
                          cells, max_total)

\* the locals of _poisson_score_matrix at its return; the dict it returns is
\* their p_total, p_home_win, p_draw and p_away_win
_poisson_score_matrix(lambda_home, lambda_away, max_goals) ==
    score_matrix_of_pmf(pmf_of(lambda_home, max_goals), pmf_of(lambda_away, max_goals),
                        Cells(max_goals), max_goals * 2)

-----------------------------------------------------------------------------
(* routes_soccer.py: the game projection.                                  *)

\* mat = _poisson_score_matrix(lambda_home, lambda_away, max_goals=10)
score_matrix_max_goals == 10

_confidence_from_prob(p) ==
    IF GeQ(p, Q(7, 10)) THEN "Alta"
    ELSE IF GeQ(p, Q(3, 5)) THEN "Media-Alta"
    ELSE IF GeQ(p, Q(11, 20)) THEN "Media"
    ELSE "Baja"

\* 1.0 / (1.0 + exp(x)) to a multiple of 1 / PmfScale, as 1 / (1 + exp(x)) for
\* x <= 0 and as exp(-x) / (exp(-x) + 1) for x > 0
logistic_of(x) ==
    IF LeQ(x, F(0))
    THEN Q((PmfScale * PmfScale) \div (PmfScale + exp(x)), PmfScale)
    ELSE Q((PmfScale * exp(Q(-x.n, x.d))) \div (PmfScale + exp(Q(-x.n, x.d))), PmfScale)

\* thresh = book_over_under if book_over_under is not None else 2.5
thresh(book_over_under) == IF book_over_under.some THEN book_over_under.v ELSE Q(5, 2)

\* prob_logistic = 1.0 / (1.0 + exp(-k * delta)) with k = 1.6
prob_logistic(delta) == logistic_of(MulQ(Q(-8, 5), delta))

_ai_adjust_over25_prob(prob_poisson_over25, lambda_home, lambda_away, book_over_under) ==
    Then(prob_logistic(SubQ(AddQ(lambda_home, lambda_away), thresh(book_over_under))),
         LAMBDA prob_logistic_ :
             MaxQ(F(0),
                  MinQ(F(1),
                       AddQ(MulQ(Q(7, 10), prob_poisson_over25),
                            MulQ(Q(3, 10), prob_logistic_)))))

\* the last of the keys with the largest value
best_key_of_last(keys, probs) ==
    keys[CHOOSE i \in 1 .. Len(keys) :
             /\ \A j \in 1 .. Len(keys) : GeQ(probs[keys[i]], probs[keys[j]])
             /\ \A j \in i + 1 .. Len(keys) : GtQ(probs[keys[i]], probs[keys[j]])]

\* max(probs, key=probs.get): the first of the keys with the largest value
RECURSIVE best_key(_, _)
best_key(keys, probs) ==
    IF Len(keys) = 1 THEN keys[1]
    ELSE IF \A i \in 2 .. Len(keys) : GeQ(probs[keys[1]], probs[keys[i]]) THEN keys[1]
    ELSE best_key(Tail(keys), probs)

SoccerMarketProjection(market, pick, confidence, prob, edge_pct) ==
    [market |-> market, pick |-> pick, confidence |-> confidence, prob |-> prob,
     edge_pct |-> edge_pct]

\* an Over 2.5 market that picks over from one half on
over25_pick_of_even_odds(prob_over25, expected_goals, thresh_) ==
    SoccerMarketProjection("OVER_25",
                           IF GeQ(prob_over25, Q(1, 2)) THEN "OVER 2.5" ELSE "NO BET",
                           _confidence_from_prob(prob_over25), prob_over25,
                           Some(MulQ(DivQ(SubQ(expected_goals, thresh_),
                                          MaxQ(thresh_, F(1))),
                                     F(100))))

\* the Over 2.5 market
over25_pick_of(prob_over25, expected_goals, thresh_) ==
    SoccerMarketProjection("OVER_25",
                           IF GeQ(prob_over25, Q(11, 20)) THEN "OVER 2.5" ELSE "NO BET",
                           _confidence_from_prob(prob_over25), prob_over25,
                           Some(MulQ(DivQ(SubQ(expected_goals, thresh_),
                                          MaxQ(thresh_, F(1))),
                                     F(100))))

\* the 1X2 market
pick_1x2_of(probs_1x2, best_outcome) ==
    SoccerMarketProjection("1X2", best_outcome,
                           _confidence_from_prob(probs_1x2[best_outcome]),
                           probs_1x2[best_outcome], NoneQ)

dc_probs_of_draw_alone(p_home_win, p_draw, p_away_win) ==
    [k \in {"1X", "X2", "12"} |-> IF k = "12" THEN AddQ(p_home_win, p_away_win) ELSE p_draw]

\* p_1X, p_X2, p_12
dc_probs_of(p_home_win, p_draw, p_away_win) ==
    [k \in {"1X", "X2", "12"} |->
        IF k = "1X" THEN AddQ(p_home_win, p_draw)
        ELSE IF k = "X2" THEN AddQ(p_draw, p_away_win)
        ELSE AddQ(p_home_win, p_away_win)]

\* the double chance market
double_chance_best_of(dc_probs, best_dc) ==
    SoccerMarketProjection("DOUBLE_CHANCE", best_dc, _confidence_from_prob(dc_probs[best_dc]),
                           dc_probs[best_dc], NoneQ)

\* the 1X2 and double chance markets of soccer_game_projection for the
\* three probabilities of the score matrix
soccer_game_projection_picks(p_home_win, p_draw, p_away_win) ==
    LET probs_1x2 == [k \in {"1", "X", "2"} |->
                         IF k = "1" THEN p_home_win ELSE IF k = "X" THEN p_draw
                         ELSE p_away_win]
        dc_probs == dc_probs_of(p_home_win, p_draw, p_away_win)
    IN  [handler |-> "soccer_game_projection_picks",
         status |-> 200,
         pick_1x2 |-> pick_1x2_of(probs_1x2, best_key(<<"1", "X", "2">>, probs_1x2)),
         double_chance_best |->
             double_chance_best_of(dc_probs, best_key(<<"1X", "X2", "12">>, dc_probs))]

\* sum(p_total[g] for g in range(3, len(p_total)))
prob_over25_poisson_of(p_total) == SumQ(SubSeq(p_total, 4, Len(p_total)))

soccer_game_projection_response(book_over_under, lambda_home, lambda_away, mat,
                                prob_over25_poisson, probs_1x2, dc_probs) ==
    [handler |-> "soccer_game_projection",
     status |-> 200,
     book_over_under |-> book_over_under,
     lambda_home |-> lambda_home,
     lambda_away |-> lambda_away,
     expected_goals |-> AddQ(lambda_home, lambda_away),
     prob_over25_poisson |-> prob_over25_poisson,
     prob_1 |-> mat.p_home_win,
     prob_X |-> mat.p_draw,
     prob_2 |-> mat.p_away_win,
     over25_pick |->
         Then(_ai_adjust_over25_prob(prob_over25_poisson, lambda_home, lambda_away,
                                     book_over_under),
              LAMBDA prob_over25 :
                  over25_pick_of(prob_over25, AddQ(lambda_home, lambda_away),
                                 thresh(book_over_under))),
     pick_1x2 |-> pick_1x2_of(probs_1x2, best_key(<<"1", "X", "2">>, probs_1x2)),
     double_chance_best |->
         double_chance_best_of(dc_probs, best_key(<<"1X", "X2", "12">>, dc_probs))]

soccer_game_projection_markets(book_over_under, lambda_home, lambda_away, mat) ==
    Then(prob_over25_poisson_of(mat.p_total),
         LAMBDA prob_over25_poisson :
             soccer_game_projection_response(
                 book_over_under, lambda_home, lambda_away, mat, prob_over25_poisson,
                 [k \in {"1", "X", "2"} |->
                     IF k = "1" THEN mat.p_home_win ELSE IF k = "X" THEN mat.p_draw
                     ELSE mat.p_away_win],
                 dc_probs_of(mat.p_home_win, mat.p_draw, mat.p_away_win)))

soccer_game_projection_model(book_over_under, lambdas_) ==
    Then(_poisson_score_matrix(lambdas_.lambda_home, lambdas_.lambda_away,
                               score_matrix_max_goals),
         LAMBDA mat :
             soccer_game_projection_markets(book_over_under, lambdas_.lambda_home,
                                            lambdas_.lambda_away, mat))

\* book_over_under = float(ou_raw) of the first odds item, None when it is
\* absent or does not parse
soccer_book_over_under(odds_data) ==
    IF odds_data.present /\ odds_data.items # <<>>
    THEN IF odds_data.items[1].overUnder.kind # "none"
            /\ float(odds_data.items[1].overUnder).ok
         THEN Some(float(odds_data.items[1].overUnder).v)
         ELSE NoneQ
    ELSE NoneQ

\* the last competitor of a side, or none
RECURSIVE side_comp(_, _)
side_comp(competitors, side) ==
    IF competitors = <<>> THEN [found |-> FALSE]
    ELSE IF competitors[Len(competitors)].homeAway = side
    THEN [found |-> TRUE, comp |-> competitors[Len(competitors)]]
    ELSE side_comp(SubSeq(competitors, 1, Len(competitors) - 1), side)

soccer_game_projection_of_sides(p, home, away) ==
    IF ~home.found \/ ~away.found
    THEN HTTPException("soccer_game_projection", 500, "home/away")
    ELSE Then(_compute_bayesian_lambdas(soccer_book_over_under(p.odds_data),
                                        home.comp, away.comp),
              LAMBDA lambdas_ :
                  soccer_game_projection_model(soccer_book_over_under(p.odds_data),
                                               lambdas_))

\* the competitors of the event of the payload
event_competitors(events, event_id) ==
    events[CHOOSE i \in 1 .. Len(events) :
               /\ events[i].id = event_id
               /\ \A j \in 1 .. i - 1 : events[j].id # event_id].competitors

soccer_game_projection_of_event(p, competitors) ==
    soccer_game_projection_of_sides(p, side_comp(competitors, "home"),
                                    side_comp(competitors, "away"))

soccer_game_projection(p) ==
    IF ~p.scoreboard.present \/ ~p.scoreboard.has_events
    THEN HTTPException("soccer_game_projection", 404, "scoreboard")
    ELSE IF ~EventFound(p.scoreboard.events, p.event_id)
    THEN HTTPException("soccer_game_projection", 404, "event")
    ELSE soccer_game_projection_of_event(
             p, event_competitors(p.scoreboard.events, p.event_id))

-----------------------------------------------------------------------------
(* wspm_nba_streaks.py: the streak detector.                               *)

DEFAULT_THRESHOLDS ==
    [points |-> <<23, 18, 16, 15, 14, 13, 12, 11>>,
     rebounds |-> <<7, 5, 4>>,
     assists |-> <<5, 4, 3, 2>>,
     threes_made |-> <<1>>]

ALIASES ==
    [points |-> <<<<"p", "o", "i", "n", "t", "s">>, <<"p", "t", "s">>>>,
     rebounds |-> <<<<"r", "e", "b", "o", "u", "n", "d", "s">>, <<"r", "e", "b">>, <<"t", "o", "t", "a", "l", "R", "e", "b", "o", "u", "n", "d", "s">>>>,
     assists |-> <<<<"a", "s", "s", "i", "s", "t", "s">>, <<"a", "s", "t">>>>,
     threes_made |-> <<<<"t", "h", "r", "e", "e", "P", "o", "i", "n", "t", "F", "i", "e", "l", "d", "G", "o", "a", "l", "s", "M", "a", "d", "e">>,
                       <<"t", "h", "r", "e", "e", "P", "o", "i", "n", "t", "F", "G", "M">>,
                       <<"3", "p", "t", "F", "i", "e", "l", "d", "G", "o", "a", "l", "s", "M", "a", "d", "e">>,
                       <<"3", "p", "t", "f", "g", "m">>,
                       <<"f", "g", "3", "m">>>>]

\* the games that meet the threshold, wherever they are in the series
_compute_streak_of_all_games(values, threshold) ==
    Cardinality({i \in 1 .. Len(values) : GeQ(values[i], F(threshold))})

\* the consecutive games from the most recent one that meet the threshold
_compute_streak(values, threshold) ==
    IF \E i \in 1 .. Len(values) : LtQ(values[i], F(threshold))
    THEN (CHOOSE i \in 1 .. Len(values) :
              /\ LtQ(values[i], F(threshold))
              /\ \A j \in 1 .. i - 1 : GeQ(values[j], F(threshold))) - 1
    ELSE Len(values)

\* the loop of _extract_stat_series: a stat that does not parse is 0.0
RECURSIVE StreakValues(_, _, _)
StreakValues(recent, idx, out) ==
    IF recent = <<>> THEN out
    ELSE IF Len(Head(recent).stats) > idx
    THEN StreakValues(Tail(recent), idx,
                      Append(out,
                             IF float_without_commas(Head(recent).stats[idx + 1]).ok
                             THEN float_without_commas(Head(recent).stats[idx + 1]).v
                             ELSE F(0)))
    ELSE StreakValues(Tail(recent), idx, out)

_extract_stat_series(gl, stat_key) ==
    IF _find_stat_index(gl.names, ALIASES[stat_key]) < 0 THEN <<>>
    ELSE IF _extract_regular_season_events(gl) = <<>> THEN <<>>
    ELSE StreakValues(Reversed(_extract_regular_season_events(gl)),
                      _find_stat_index(gl.names, ALIASES[stat_key]), <<>>)

\* if streak_len >= 5
min_streak_len == 5

\* the loop over the thresholds: one entry for the first threshold whose
\* streak is long enough, none when there is no such threshold
RECURSIVE first_streak(_, _, _)
first_streak(series, thresholds, min_len) ==
    IF thresholds = <<>> THEN <<>>
    ELSE IF _compute_streak(series, Head(thresholds)) >= min_len
    THEN <<[threshold |-> Head(thresholds),
            streak |-> _compute_streak(series, Head(thresholds))]>>
    ELSE first_streak(series, Tail(thresholds), min_len)

\* the entries of a player in the bucket of stat_key
player_streaks(series, stat_key) ==
    IF series = <<>> THEN <<>>
    ELSE first_streak(series, DEFAULT_THRESHOLDS[stat_key], min_streak_len)

\* buckets at the return of build_streaks_for_date, for a date with one
\* player on the rosters: his gamelog is gl, and gl.present = FALSE stands for
\* a fetch that raised, which skips the player; sorting a bucket of at most
\* one entry leaves it as it is
build_streaks_for_date(gl) ==
    [built |-> TRUE,
     raw |-> [stat_key \in DOMAIN DEFAULT_THRESHOLDS |->
                 IF gl.present THEN player_streaks(_extract_stat_series(gl, stat_key), stat_key)
                 ELSE <<>>]]

-----------------------------------------------------------------------------
(* The provider-response cache of app/utils/cache.py.  The dict _cache is  *)
(* a function from the keys it holds to <<timestamp, value>>; the clock    *)
(* of time.time() is counted in seconds.                                   *)

None == "None"

\* get_from_cache(key) without a ttl_seconds argument
default_ttl_seconds == 60

\* settings.espn_cache_ttl_seconds
espn_cache_ttl_seconds == 900

\* get_from_cache with the comparison of ttl_cache_json, now < expires_at:
\* an entry whose age is exactly ttl_seconds is expired
get_from_cache_until_expiry(cache, time, key, ttl_seconds) ==
    IF key \in DOMAIN cache
    THEN IF time - cache[key][1] < ttl_seconds
         THEN [value |-> cache[key][2], cache |-> cache]
         ELSE [value |-> None, cache |-> [k \in DOMAIN cache \ {key} |-> cache[k]]]
    ELSE [value |-> None, cache |-> cache]

\* get_from_cache called at `time': the value it returns and the dict it
\* leaves
get_from_cache(cache, time, key, ttl_seconds) ==
    IF key \in DOMAIN cache
    THEN IF time - cache[key][1] <= ttl_seconds
         THEN [value |-> cache[key][2], cache |-> cache]
         ELSE [value |-> None, cache |-> [k \in DOMAIN cache \ {key} |-> cache[k]]]
    ELSE [value |-> None, cache |-> cache]

\* the dict set_in_cache leaves when called at `time'
set_in_cache(cache, time, key, value) ==
    [k \in DOMAIN cache \cup {key} |-> IF k = key THEN <<time, value>> ELSE cache[k]]

-----------------------------------------------------------------------------
(* A provider fetch, statement by statement.  Each request in flight has   *)
(* a frame: the client it calls, the statement it stands at (pc), and the  *)
(* locals of that client and of the cache functions it calls.  The cache   *)
(* functions take no lock, so the statements of one request interleave     *)
(* with those of the others wherever requests run on threads of their own. *)

\* fetch_scoreboard_data(week = 1, season_type = 2)
scoreboard_key == "nfl:scoreboard:2:1"

\* the frame of a request entering its client
EnterFrame(client) ==
    [client |-> client,
     pc |-> IF client = "fetch_scoreboard_data" THEN "get_from_cache" ELSE "requests.get",
     now |-> 0, ts |-> 0, value |-> None, data |-> None, stamp |-> 0, result |-> None]

At(r, pc) == r \in DOMAIN frames /\ frames[r].pc = pc

-----------------------------------------------------------------------------
(* Values the variables of one specification keep while another runs.      *)

NoMargins == <<>>
NoTiers == <<>>
NoPayload == [kind |-> "idle"]
NoResponse == [status |-> 0]
NoGamelog == [present |-> FALSE]
NoProjection == [path |-> "none"]
NoCompetitor == [records |-> <<>>]
NoRecordData == [games |-> -1]
NoLambdaArgs == [present |-> FALSE]
NoLambdas == [h_games |-> -1]
NoRates == [present |-> FALSE]
NoMatrix == [p_total |-> <<>>]
NoBuckets == [built |-> FALSE]
NoReturned == [op |-> "none"]
NoFrames == <<>>

IdleMono == margins = NoMargins /\ tiers = NoTiers
IdleEval == payload = NoPayload /\ response = NoResponse
IdleSeries == gamelog = NoGamelog /\ games_window = 0 /\ projection = NoProjection
IdleRecord == competitor = NoCompetitor /\ record_data = NoRecordData
IdleLambdas == lambda_args = NoLambdaArgs /\ lambdas = NoLambdas
IdlePoisson == rates = NoRates /\ matrix = NoMatrix
IdleStreak == player_gamelog = NoGamelog /\ buckets = NoBuckets
IdleCache == _cache = <<>> /\ now = 0 /\ returned = NoReturned /\ frames = NoFrames

\* every specification but `spec' stands idle
Idle(spec) ==
    /\ IF spec = "Mono" THEN TRUE ELSE IdleMono
    /\ IF spec = "Eval" THEN TRUE ELSE IdleEval
    /\ IF spec = "Series" THEN TRUE ELSE IdleSeries
    /\ IF spec = "Record" THEN TRUE ELSE IdleRecord
    /\ IF spec = "Lambdas" THEN TRUE ELSE IdleLambdas
    /\ IF spec = "Poisson" THEN TRUE ELSE IdlePoisson
    /\ IF spec = "Streak" THEN TRUE ELSE IdleStreak
    /\ IF spec = "Cache" THEN TRUE ELSE IdleCache

\* an action of `spec' leaves the variables of the other specifications alone
Unchanged(spec) ==
    /\ IF spec = "Mono" THEN TRUE ELSE UNCHANGED monoVars
    /\ IF spec = "Eval" THEN TRUE ELSE UNCHANGED evalVars
    /\ IF spec = "Series" THEN TRUE ELSE UNCHANGED seriesVars
    /\ IF spec = "Record" THEN TRUE ELSE UNCHANGED recordVars
    /\ IF spec = "Lambdas" THEN TRUE ELSE UNCHANGED lambdasVars
    /\ IF spec = "Poisson" THEN TRUE ELSE UNCHANGED poissonVars
    /\ IF spec = "Streak" THEN TRUE ELSE UNCHANGED streakVars
    /\ IF spec = "Cache" THEN TRUE ELSE UNCHANGED cacheVars

-----------------------------------------------------------------------------
(* SpecEval: one request, drawn with the provider's data, answered by one  *)
(* handler.                                                                *)

MaxEvalGames == 2
MaxWeek == 3

SeqsUpTo(S, n) == UNION { [1 .. k -> S] : k \in 0 .. n }

BookLines == {F(-20), F(0), F(20), F(50)}

ManualBases == {F(-1), F(0), F(19), F(20), F(21), F(22), F(23), F(51)}

ManualOverrides == {NoneQ, Some(F(0)), Some(F(22)), Some(F(51))}

ManualPayloads ==
    [kind : {"manual"},
     book_line : BookLines,
     base_projection : ManualBases,
     adj_matchup : {F(-1), F(0), Q(1, 2)},
     adj_volume : {F(0), Q(1, 2)},
     adj_risk : {F(-1), F(0)},
     adj_tempo : {F(0), F(1), F(3)},
     model_projection : ManualOverrides]

\* the per-game stat values of the provider: "0", "19" .. "23", "51", "--"
StatRaws ==
    {RawStr(<<"0">>), RawStr(<<"1", "9">>), RawStr(<<"2", "0">>), RawStr(<<"2", "1">>), RawStr(<<"2", "2">>),
     RawStr(<<"2", "3">>), RawStr(<<"5", "1">>), RawStr(<<"-", "-">>)}

RegularSeason(events) ==
    [splitType |-> "2",
     displayName |-> <<"2024", "Regular", "Season">>,
     categories |-> <<events>>]

\* an indexed gamelog with one stat column and one regular-season segment;
\* series is in the provider's order, oldest game first
IndexedGamelog(names, series) ==
    [present |-> TRUE,
     names |-> names,
     seasonTypes |-> <<RegularSeason([i \in 1 .. Len(series) |-> [stats |-> <<series[i]>>]])>>,
     events |-> <<>>,
     gamelog |-> <<>>,
     games |-> <<>>]

FailedGamelog ==
    [present |-> FALSE, names |-> <<>>, seasonTypes |-> <<>>,
     events |-> <<>>, gamelog |-> <<>>, games |-> <<>>]

Str_points == <<"p", "o", "i", "n", "t", "s">>

OddsChoices ==
    {[present |-> FALSE, items |-> <<>>], [present |-> TRUE, items |-> <<>>]}
    \cup { [present |-> TRUE, items |-> <<[overUnder |-> ou], [overUnder |-> RawNum(F(300))]>>] :
             ou \in {RawNone, RawStr(<<"N", "/", "A">>), RawStr(<<"5", "0">>), RawNum(Q(91, 2)), RawNum(F(46)),
                     RawNum(Q(99, 2)), RawNum(F(50)), RawNum(Q(449, 2)), RawNum(F(225)),
                     RawNum(F(235))} }

ScoreboardWith(ids) ==
    [present |-> TRUE, has_events |-> TRUE, events |-> [i \in 1 .. Len(ids) |-> [id |-> ids[i]]]]

ScoreboardChoices ==
    {[present |-> FALSE, has_events |-> FALSE, events |-> <<>>],
     [present |-> TRUE, has_events |-> FALSE, events |-> <<>>],
     ScoreboardWith(<<"E2">>),
     ScoreboardWith(<<"E2", "E1">>)}

AutoPayload(series, failed, odds, market, line, sb, athlete) ==
    [kind |-> "auto",
     event_id |-> "E1",
     athlete_id |-> athlete,
     market_type |-> market,
     book_line |-> line,
     scoreboard |-> sb,
     odds_data |-> odds,
     nfl_gamelog |-> IF failed THEN FailedGamelog
                     ELSE IndexedGamelog(<<Str_rushingYards>>, series),
     nba_gamelog |-> IF failed THEN FailedGamelog
                     ELSE IndexedGamelog(<<Str_points>>, series)]

AutoPayloads ==
    { AutoPayload(series, FALSE, odds, market, line, ScoreboardWith(<<"E2", "E1">>), <<"7">>) :
        series \in SeqsUpTo(StatRaws, MaxEvalGames), odds \in OddsChoices,
        market \in {"rushing_yards", "points", "touchdowns"}, line \in BookLines }
    \cup
    { AutoPayload(<<RawStr(<<"2", "1">>)>>, failed, [present |-> FALSE, items |-> <<>>],
                  market, F(20), sb, athlete) :
        failed \in BOOLEAN, market \in {"rushing_yards", "points"},
        sb \in ScoreboardChoices, athlete \in {<<"7">>, <<" ", "7", " ">>, <<"x", "7">>, <<>>} }

\* scoreboard events of the game projection
Competitor(side, abbr, score) == [homeAway |-> side, abbr |-> abbr, score |-> score]

Game(id, home, hs, away, as, completed) ==
    [id |-> id,
     competitors |-> <<Competitor("home", home, RawStr(hs)), Competitor("away", away, RawStr(as))>>,
     completed |-> completed]

Board(events) == [present |-> TRUE, has_events |-> TRUE, events |-> events]

NoBoard == [present |-> FALSE, has_events |-> FALSE, events |-> <<>>]

HistoryBoards ==
    {NoBoard,
     Board(<<>>),
     Board(<<Game("G1", "KC", <<"2", "4">>, "NYJ", <<"2", "0">>, TRUE)>>),
     Board(<<Game("G2", "NYJ", <<"1", "6">>, "KC", <<"2", "0">>, TRUE)>>),
     Board(<<Game("G3", "BUF", <<"2", "0">>, "NYJ", <<"2", "4">>, TRUE)>>),
     Board(<<Game("G4", "KC", <<"2", "2">>, "BUF", <<"2", "0">>, TRUE)>>),
     Board(<<Game("G5", "KC", <<"0">>, "NYJ", <<"2", "0">>, TRUE)>>),
     Board(<<Game("G6", "KC", <<"3", "0">>, "BUF", <<"1", "0">>, FALSE)>>),
     Board(<<Game("G7", "KC", <<"-", "-">>, "BUF", <<"1", "0">>, TRUE)>>),
     Board(<<Game("G1", "KC", <<"2", "4">>, "NYJ", <<"2", "0">>, TRUE),
             Game("G3", "BUF", <<"2", "0">>, "NYJ", <<"2", "4">>, TRUE)>>),
     Board(<<[id |-> "G8", competitors |-> <<>>, completed |-> TRUE],
             Game("G3", "BUF", <<"2", "1">>, "NYJ", <<"2", "1">>, TRUE)>>)}

CurrentBoards ==
    {NoBoard,
     Board(<<Game("E2", "KC", <<"0">>, "BUF", <<"0">>, FALSE)>>),
     Board(<<[id |-> "E1", competitors |-> <<Competitor("home", "KC", RawStr(<<"0">>))>>,
              completed |-> FALSE]>>),
     Board(<<[id |-> "E1",
              competitors |-> <<Competitor("home", "KC", RawStr(<<"0">>)),
                                Competitor("home", "BUF", RawStr(<<"0">>))>>,
              completed |-> FALSE]>>)}

GoodBoard == Board(<<Game("E2", "NYJ", <<"0">>, "MIA", <<"0">>, FALSE),
                     Game("E1", "KC", <<"0">>, "BUF", <<"0">>, FALSE)>>)

\* the scoreboards of weeks 1 .. MaxWeek: history before week, current at week
Scoreboards(week, history, current) ==
    [w \in 1 .. MaxWeek |-> IF w < week THEN history[w]
                            ELSE IF w = week THEN current ELSE NoBoard]

GamePayload(week, history, current, total, spread, window) ==
    [kind |-> "game",
     event_id |-> "E1",
     week |-> week,
     book_total |-> total,
     book_spread |-> spread,
     games_window |-> window,
     scoreboards |-> Scoreboards(week, history, current)]

GamePayloads ==
    { GamePayload(week, history, GoodBoard, total, spread, window) :
        week \in 1 .. MaxWeek, history \in [1 .. MaxWeek - 1 -> HistoryBoards],
        total \in {F(0), F(40), F(44)}, spread \in {F(-3), F(0), F(4)},
        window \in {1, 5} }
    \cup
    { GamePayload(1, [w \in 1 .. MaxWeek - 1 |-> NoBoard], current, F(40), F(0), 5) :
        current \in CurrentBoards }

InitEval ==
    /\ \/ payload \in ManualPayloads
       \/ payload \in AutoPayloads
       \/ payload \in GamePayloads
    /\ response = NoResponse
    /\ Idle("Eval")

Respond(r) ==
    /\ response = NoResponse
    /\ response' = r
    /\ UNCHANGED payload
    /\ Unchanged("Eval")

WspmProjection ==
    /\ payload.kind = "manual"
    /\ Respond(wspm_projection(payload))

WspmAutoProjection ==
    /\ payload.kind = "auto"
    /\ Respond(wspm_auto_projection(payload))

WspmAutoProjectionReport ==
    /\ payload.kind = "auto"
    /\ Respond(wspm_auto_projection_report(payload))

NbaWspmAutoProjection ==
    /\ payload.kind = "auto"
    /\ Respond(nba_wspm_auto_projection(payload))

NbaWspmAutoProjectionReport ==
    /\ payload.kind = "auto"
    /\ Respond(nba_wspm_auto_projection_report(payload))

ComputeGameProjection ==
    /\ payload.kind = "game"
    /\ Respond(compute_game_projection(payload))

NextEval ==
    \/ WspmProjection
    \/ WspmAutoProjection
    \/ WspmAutoProjectionReport
    \/ NbaWspmAutoProjection
    \/ NbaWspmAutoProjectionReport
    \/ ComputeGameProjection

SpecEval == InitEval /\ [][NextEval]_vars

-----------------------------------------------------------------------------
(* Properties of the responses (SpecEval).                                 *)

PlayerPropHandlers ==
    {"wspm_projection", "wspm_auto_projection", "wspm_auto_projection_report",
     "nba_wspm_auto_projection", "nba_wspm_auto_projection_report"}

AutoHandlers == PlayerPropHandlers \ {"wspm_projection"}

Evaluated(handlers) == response.status = 200 /\ response.handler \in handlers

\* C1: every player-prop operation that evaluates a projection against a
\* book line (manual, football auto and auto report, basketball auto and
\* auto report) refuses to evaluate when base_projection <= 0: a result is
\* returned only for a positive base projection.
C1_RefusesWithoutBase ==
    Evaluated(PlayerPropHandlers) => GtQ(response.base_projection, F(0))

\* C2: in the results of the manual, football auto, basketball auto and
\* game-total evaluations, direction is "OVER" exactly when the model
\* projection is strictly above the book line, and "UNDER" when it is
\* equal to it or below.
C2_Direction ==
    /\ Evaluated({"wspm_projection", "wspm_auto_projection", "nba_wspm_auto_projection"})
         => /\ response.direction \in {"OVER", "UNDER"}
            /\ response.direction = "OVER"
                 <=> GtQ(response.wspm_projection, response.book_line)
    /\ Evaluated({"compute_game_projection"})
         => /\ response.direction_total \in {"OVER", "UNDER"}
            /\ response.direction_total = "OVER"
                 <=> GtQ(response.model_total, response.book_total)

C2_Witness ==
    /\ Evaluated({"wspm_projection", "wspm_auto_projection", "nba_wspm_auto_projection"})
    /\ response.wspm_projection = response.book_line
    /\ response.direction = "UNDER"

\* what C5 says of a zero book line, for a player prop
ZeroLineProp ==
    (Evaluated(PlayerPropHandlers) /\ response.book_line = F(0))
      => /\ response.margin_pct = F(0)
         /\ response.safety_margin_pct = F(0)
         /\ response.prob_cover = F(52)
         /\ response.confidence = "Baja"
         /\ response.safety_margin_value = AbsQ(response.edge)

\* what C5 says of a zero book line, for the game total
ZeroLineTotal ==
    (Evaluated({"compute_game_projection"}) /\ response.book_total = F(0))
      => /\ response.margin_total_pct = F(0)
         /\ response.safety_total_pct = F(0)
         /\ response.prob_total = F(52)
         /\ response.confidence_total = "Baja"
         /\ response.safety_total = AbsQ(response.edge_total)

\* C5 as stated: when the book line is 0 the margin is 0 (safety margin 0,
\* probability 52, lowest confidence) whatever the edge, and the safety
\* margin value is still |edge|, for player props, the game total and the
\* game spread alike.
C5_ZeroLineAsStated ==
    /\ ZeroLineProp
    /\ ZeroLineTotal
    /\ (Evaluated({"compute_game_projection"}) /\ response.book_spread = F(0))
         => /\ response.margin_spread_pct = F(0)
            /\ response.safety_spread_pct = F(0)
            /\ response.prob_spread = F(52)
            /\ response.confidence_spread = "Baja"
            /\ response.safety_spread = AbsQ(response.edge_spread)

\* C5, amended: when the book line is 0 the margin is 0 (safety margin 0,
\* probability 52, lowest confidence) and the safety margin value is |edge|
\* for player props and for the game total; for the game spread a zero book
\* spread gives the margin edge_spread / 3 * 100, which is 0 only when the
\* edge is 0, and the safety margin value is |edge_spread|.
C5_ZeroLine ==
    /\ ZeroLineProp
    /\ ZeroLineTotal
    /\ (Evaluated({"compute_game_projection"}) /\ response.book_spread = F(0))
         => /\ response.margin_spread_pct = Q(response.edge_spread.n * 100,
                                              response.edge_spread.d * 3)
            /\ response.safety_spread_pct = AbsQ(response.margin_spread_pct)
            /\ response.margin_spread_pct = F(0) <=> response.edge_spread = F(0)
            /\ response.safety_spread = AbsQ(response.edge_spread)

C5_Witness ==
    /\ Evaluated({"compute_game_projection"})
    /\ response.book_spread = F(0)
    /\ response.book_total = F(0)
    /\ response.edge_spread # F(0)
    /\ response.edge_total # F(0)
    /\ response.prob_spread = F(70)

\* C6: in the manual evaluation net_adjust is the sum of the four
\* adjustments; the model projection is the override when one is given
\* (base_projection and net_adjust are still reported) and base_projection
\* + net_adjust otherwise; edge is the model projection minus book_line,
\* and margin and direction follow from the edge and the book line alone.
C6_ManualProjection ==
    Evaluated({"wspm_projection"})
      => /\ response.net_adjust.n * (payload.adj_matchup.d * payload.adj_volume.d
                                       * payload.adj_risk.d * payload.adj_tempo.d)
              = response.net_adjust.d
                  * (payload.adj_matchup.n * payload.adj_volume.d * payload.adj_risk.d * payload.adj_tempo.d
                     + payload.adj_volume.n * payload.adj_matchup.d * payload.adj_risk.d * payload.adj_tempo.d
                     + payload.adj_risk.n * payload.adj_matchup.d * payload.adj_volume.d * payload.adj_tempo.d
                     + payload.adj_tempo.n * payload.adj_matchup.d * payload.adj_volume.d * payload.adj_risk.d)
         /\ response.base_projection = payload.base_projection
         /\ payload.model_projection.some
              => response.wspm_projection = payload.model_projection.v
         /\ ~payload.model_projection.some
              => response.wspm_projection = AddQ(payload.base_projection, response.net_adjust)
         /\ response.edge = SubQ(response.wspm_projection, payload.book_line)
         /\ payload.book_line # F(0)
              => response.margin_pct
                   = MulQ(DivQ(response.edge, AbsQ(payload.book_line)), F(100))
         /\ response.direction = "OVER" <=> GtQ(response.edge, F(0))

C6_Witness ==
    /\ Evaluated({"wspm_projection"})
    /\ payload.model_projection.some
    /\ response.net_adjust # F(0)
    /\ response.wspm_projection # AddQ(payload.base_projection, response.net_adjust)
    /\ response.wspm_projection = payload.model_projection.v

\* the market game total of the request: the first odds item's overUnder
MarketTotal ==
    IF payload.odds_data.present /\ payload.odds_data.items # <<>>
    THEN float(payload.odds_data.items[1].overUnder)
    ELSE Unparsed

\* C7: in the automatic player-prop projections the tempo adjustment is a
\* step of the market game total (football 3.0 from 50, 1.0 from 46;
\* basketball 3.0 from 235, 1.5 from 225; 0 below), 0 when the total is
\* absent or unparseable, and net_adjust equals the tempo adjustment.
C7_Tempo ==
    /\ Evaluated({"wspm_auto_projection", "wspm_auto_projection_report"})
         => /\ response.adj_tempo
                 = IF ~MarketTotal.ok THEN F(0)
                   ELSE IF GeQ(MarketTotal.v, F(50)) THEN F(3)
                   ELSE IF GeQ(MarketTotal.v, F(46)) THEN F(1)
                   ELSE F(0)
            /\ response.net_adjust = response.adj_tempo
    /\ Evaluated({"nba_wspm_auto_projection", "nba_wspm_auto_projection_report"})
         => /\ response.adj_tempo
                 = IF ~MarketTotal.ok THEN F(0)
                   ELSE IF GeQ(MarketTotal.v, F(235)) THEN F(3)
                   ELSE IF GeQ(MarketTotal.v, F(225)) THEN Q(3, 2)
                   ELSE F(0)
            /\ response.net_adjust = response.adj_tempo

C7_Witness ==
    /\ Evaluated({"nba_wspm_auto_projection"})
    /\ MarketTotal.ok
    /\ MarketTotal.v = F(225)
    /\ response.adj_tempo = Q(3, 2)
    /\ response.wspm_projection = AddQ(response.base_projection, Q(3, 2))

-----------------------------------------------------------------------------
(* SpecMono: the step functions of every handler applied to two safety     *)
(* margins, the first evaluation on margins[1], the second on margins[2].  *)

MaxPct == 16

SafetyMargins == { Q(k, 2) : k \in 0 .. 2 * MaxPct }

InitMono ==
    /\ margins \in SafetyMargins \X SafetyMargins
    /\ tiers = NoTiers
    /\ Idle("Mono")

Tier(impl, prob, conf) == [impl |-> impl, prob_cover |-> prob, confidence |-> conf]

EvaluateTier(t) ==
    /\ Len(tiers) < Len(margins)
    /\ tiers' = Append(tiers, t)
    /\ UNCHANGED margins
    /\ Unchanged("Mono")

NextMargin == margins[Len(tiers) + 1]

TierManual ==
    /\ Len(tiers) < Len(margins)
    /\ EvaluateTier(Tier("wspm_projection",
                         wspm_projection_prob_cover(NextMargin),
                         wspm_projection_confidence(NextMargin)))

TierNflAuto ==
    /\ Len(tiers) < Len(margins)
    /\ EvaluateTier(Tier("wspm_auto_projection",
                         wspm_auto_projection_prob_cover(NextMargin),
                         wspm_auto_projection_confidence(NextMargin)))

TierNflReport ==
    /\ Len(tiers) < Len(margins)
    /\ EvaluateTier(Tier("wspm_auto_projection_report",
                         wspm_auto_projection_report_prob_cover(NextMargin),
                         wspm_auto_projection_report_confidence(NextMargin)))

TierNbaAuto ==
    /\ Len(tiers) < Len(margins)
    /\ EvaluateTier(Tier("nba_wspm_auto_projection",
                         nba_wspm_auto_projection_prob_cover(NextMargin),
                         nba_wspm_auto_projection_confidence(NextMargin)))

TierNbaReport ==
    /\ Len(tiers) < Len(margins)
    /\ EvaluateTier(Tier("nba_wspm_auto_projection_report",
                         nba_wspm_auto_projection_report_prob_cover(NextMargin),
                         nba_wspm_auto_projection_report_confidence(NextMargin)))

TierGame ==
    /\ Len(tiers) < Len(margins)
    /\ EvaluateTier(Tier("compute_game_projection",
                         _prob_from_safety(NextMargin),
                         _conf(NextMargin)))

NextMono ==
    \/ TierManual
    \/ TierNflAuto
    \/ TierNflReport
    \/ TierNbaAuto
    \/ TierNbaReport
    \/ TierGame

SpecMono == InitMono /\ [][NextMono]_vars

-----------------------------------------------------------------------------
(* Properties of the step functions (SpecMono).                            *)

\* C3: for every safety margin s >= 0 every evaluation path returns
\* probability 52 if s < 2, 55 if 2 <= s < 5, 60 if 5 <= s < 10, 65 if
\* 10 <= s < 15 and 70 if s >= 15, and confidence "Baja" if s < 5, "Media"
\* if 5 <= s < 10, "Media-Alta" if 10 <= s < 15 and "Alta" if s >= 15, so
\* the implementations agree on every s, the boundaries 2, 5, 10, 15 included.
C3_Tiers ==
    \A i \in 1 .. Len(tiers) :
        LET s == margins[i]
        IN  /\ tiers[i].prob_cover
                 = IF LtQ(s, F(2)) THEN F(52)
                   ELSE IF LtQ(s, F(5)) THEN F(55)
                   ELSE IF LtQ(s, F(10)) THEN F(60)
                   ELSE IF LtQ(s, F(15)) THEN F(65)
                   ELSE F(70)
            /\ tiers[i].confidence
                 = IF LtQ(s, F(5)) THEN "Baja"
                   ELSE IF LtQ(s, F(10)) THEN "Media"
                   ELSE IF LtQ(s, F(15)) THEN "Media-Alta"
                   ELSE "Alta"

C3_Witness ==
    /\ Len(tiers) = 2
    /\ margins = <<F(10), F(10)>>
    /\ tiers[1].impl = "compute_game_projection"
    /\ tiers[2].impl = "wspm_projection"
    /\ tiers[1].prob_cover = F(65) /\ tiers[2].prob_cover = F(65)
    /\ tiers[1].confidence = "Media-Alta" /\ tiers[2].confidence = "Media-Alta"

ConfidenceRank(c) ==
    CASE c = "Baja" -> 0
      [] c = "Media" -> 1
      [] c = "Media-Alta" -> 2
      [] c = "Alta" -> 3

\* C4: probability and confidence are non-decreasing in the safety margin:
\* of two evaluations with safety margins p1 < p2, the first has no higher
\* probability and no higher confidence tier (Baja < Media < Media-Alta <
\* Alta) than the second.
C4_Monotonic ==
    (Len(tiers) = 2 /\ LtQ(margins[1], margins[2]))
      => /\ LeQ(tiers[1].prob_cover, tiers[2].prob_cover)
         /\ ConfidenceRank(tiers[1].confidence) <= ConfidenceRank(tiers[2].confidence)

C4_Witness ==
    /\ Len(tiers) = 2
    /\ LtQ(margins[1], margins[2])
    /\ tiers[1].impl = "wspm_auto_projection"
    /\ tiers[2].impl = "nba_wspm_auto_projection"
    /\ LtQ(tiers[1].prob_cover, tiers[2].prob_cover)
    /\ ConfidenceRank(tiers[1].confidence) < ConfidenceRank(tiers[2].confidence)

-----------------------------------------------------------------------------
(* SpecSeries: a player's gamelog that grows by older games, and the base  *)
(* projections computed from it.  The provider lists the games oldest      *)
(* first, so an older game is added at the front.                          *)

MaxSeries == 4
MaxWindow == 2

SeriesRaws == {RawStr(<<"1", "0">>), RawStr(<<"2", "0">>), RawStr(<<"x">>)}

LegacyGame(raw) ==
    [stats |-> <<[name |-> "rushYds", value |-> raw, displayValue |-> RawNone]>>,
     boxscore |-> <<>>]

\* the legacy shape: no "names", the games listed under "events"
LegacyGamelog(series) ==
    [present |-> TRUE,
     names |-> <<>>,
     seasonTypes |-> <<>>,
     events |-> [i \in 1 .. Len(series) |-> LegacyGame(series[i])],
     gamelog |-> <<>>,
     games |-> <<>>]

\* the shapes of a gamelog with the given games
GamelogShapes(series) ==
    {IndexedGamelog(<<Str_rushingYards>>, series),
     IndexedGamelog(<<Str_points>>, series),
     LegacyGamelog(series)}

ExampleSeries ==
    <<RawStr(<<"5">>), RawStr(<<"1", "0">>), RawStr(<<"1", "5">>), RawStr(<<"2", "0">>), RawStr(<<"2", "5">>), RawStr(<<"3", "0">>)>>

InitSeries ==
    /\ \/ gamelog \in GamelogShapes(<<>>) /\ games_window \in 1 .. MaxWindow
       \/ gamelog \in GamelogShapes(ExampleSeries) /\ games_window = 5
    /\ projection = NoProjection
    /\ Idle("Series")

\* the number of games in the gamelog
GamesIn(gl) ==
    IF gl.names = <<>> THEN Len(gl.events)
    ELSE Len(gl.seasonTypes[1].categories[1])

AddOlderGame ==
    /\ GamesIn(gamelog) < MaxSeries
    /\ \E raw \in SeriesRaws :
         gamelog' = IF gamelog.names = <<>>
                    THEN [gamelog EXCEPT !.events = <<LegacyGame(raw)>> \o @]
                    ELSE [gamelog EXCEPT !.seasonTypes[1].categories[1] =
                                             <<[stats |-> <<raw>>]>> \o @]
    /\ UNCHANGED <<games_window, projection>>
    /\ Unchanged("Series")

Projected(path, value) ==
    /\ projection' = [path |-> path, value |-> value, at |-> GamesIn(gamelog)]
    /\ UNCHANGED <<gamelog, games_window>>
    /\ Unchanged("Series")

ComputeNflBaseProjection ==
    Projected("nfl", nfl_compute_base_projection_from_gamelog(gamelog, "rushing_yards",
                                                              games_window))

ComputeNbaBaseProjection ==
    Projected("nba", nba_compute_base_projection_from_gamelog(gamelog, "points",
                                                              games_window))

NextSeries ==
    \/ AddOlderGame
    \/ ComputeNflBaseProjection
    \/ ComputeNbaBaseProjection

SpecSeries == InitSeries /\ [][NextSeries]_vars

-----------------------------------------------------------------------------
(* Properties of the base projection (SpecSeries).                         *)

\* the stat values of the gamelog, most recent game first
StatSeries ==
    IF gamelog.names = <<>>
    THEN [i \in 1 .. Len(gamelog.events) |->
            Reversed(gamelog.events)[i].stats[1].value]
    ELSE [i \in 1 .. GamesIn(gamelog) |->
            Reversed(gamelog.seasonTypes[1].categories[1])[i].stats[1]]

\* the usable entries of a series: the values that parse as numbers
RECURSIVE Usable(_)
Usable(series) ==
    IF series = <<>> THEN <<>>
    ELSE IF float(Head(series)).ok THEN <<float(Head(series)).v>> \o Usable(Tail(series))
    ELSE Usable(Tail(series))

\* the first n entries of a sequence, all of them when it has fewer
FirstN(xs, n) == IF Len(xs) <= n THEN xs ELSE SubSeq(xs, 1, n)

\* the stat series as it was when the projection was computed: the games
\* added since are older, so they are at the end of the series
SeriesThen == SubSeq(StatSeries, 1, projection.at)

\* the projection was computed on the path of its sport from a gamelog of
\* that path's shape
OnPath ==
    \/ projection.path = "nfl" /\ gamelog.names \in {<<>>, <<Str_rushingYards>>}
    \/ projection.path = "nba" /\ gamelog.names = <<Str_points>>

\* what C8 says of a projection computed on these names
WindowedMean(names) ==
    (OnPath /\ gamelog.names \in names /\ Usable(SeriesThen) # <<>>)
      => /\ projection.value = Mean(FirstN(Usable(SeriesThen), games_window))
         /\ Len(Usable(SeriesThen)) >= games_window
              => projection.value = Mean(FirstN(Usable(StatSeries), games_window))

\* C8: the base projection is the mean of exactly the first `window`
\* most-recent usable entries of the stat series when at least `window`
\* exist (of all of them when fewer), and adding games older than those
\* entries never changes it, in the football indexed path, the football
\* legacy path and the basketball path; [30,25,20,15,10,5] with window 5
\* gives 20.
C8_WindowedMean ==
    WindowedMean({<<Str_rushingYards>>, <<Str_points>>, <<>>})

-----------------------------------------------------------------------------
(* SpecRecord: the record data of one competitor.                          *)

MaxSummary == 7

RecordChars == {"0", "1", "-", "x"}

Record(type, summary) == [type |-> type, summary |-> summary]

Summaries ==
    { RawStr(s) : s \in SeqsUpTo(RecordChars, MaxSummary) }
    \cup {RawStr(<<"1", "0", "-", "5", "-", "3">>), RawStr(<<"1", " ", "-", " ", "0">>), RawStr(<<" ", "1", "-", "1", "-", "1">>), RawStr(<<"+", "1", "-", "0">>),
          RawStr(<<"0", "-", "1", "-", "2">>), RawStr(<<"3", "-", "0", "-", "0">>), RawNone, RawNum(F(0)), RawNum(F(5))}

Competitors ==
    { [records |-> <<Record(<<"t", "o", "t", "a", "l">>, summary)>>] : summary \in Summaries }
    \cup
    { [records |-> records] :
        records \in {<<>>,
                     <<Record(<<"h", "o", "m", "e">>, RawStr(<<"1", "-", "0">>))>>,
                     <<Record(<<"h", "o", "m", "e">>, RawStr(<<"1", "-", "0">>)), Record(<<"O", "v", "e", "r", "a", "l", "l">>, RawStr(<<"0", "-", "1">>))>>,
                     <<Record(<<>>, RawStr(<<"1", "-", "1">>))>>,
                     <<Record(<<"t", "o", "t", "a", "l">>, RawNone), Record(<<"l", "e", "a", "g", "u", "e">>, RawStr(<<"1", "-", "0">>))>>,
                     <<Record(<<"t", "o", "t", "a", "l">>, RawStr(<<"1", "-", "0">>)), Record(<<"l", "e", "a", "g", "u", "e">>, RawStr(<<"0", "-", "1">>))>>,
                     <<Record(<<"l", "e", "a", "g", "u", "e">>, RawStr(<<"1", "-", "0">>)), Record(<<"v", "s", "c", "o", "n", "f">>, RawNone)>>,
                     <<Record(<<"t", "o", "t", "a", "l">>, RawStr(<<>>)), Record(<<"h", "o", "m", "e">>, RawStr(<<"1", "-", "0">>))>>,
                     <<Record(<<"t", "o", "t", "a", "l">>, RawNum(F(0))), Record(<<"T", "O", "T", "A", "L">>, RawNum(F(5))),
                       Record(<<"t", "o", "t", "a", "l">>, RawStr(<<"1", "-", "0">>))>>} }

InitRecord ==
    /\ competitor \in Competitors
    /\ record_data = NoRecordData
    /\ Idle("Record")

ExtractRecordData ==
    /\ record_data = NoRecordData
    /\ record_data' = _extract_record_data(competitor)
    /\ UNCHANGED competitor
    /\ Unchanged("Record")

NextRecord == ExtractRecordData

SpecRecord == InitRecord /\ [][NextRecord]_vars

-----------------------------------------------------------------------------
(* Properties of the record data (SpecRecord).                             *)

Extracted == record_data # NoRecordData

\* the competitor has one record, of an accepted type, with a string summary
OneRecord ==
    /\ Len(competitor.records) = 1
    /\ competitor.records[1].type = <<"t", "o", "t", "a", "l">>
    /\ competitor.records[1].summary.kind = "str"

\* the hyphen-separated parts of the summary, spaces apart
Parts == Split(Remove(competitor.records[1].summary.s, " "), "-")

\* "W-L" or "W-L-D" of non-negative integers
WellFormed ==
    /\ Len(Parts) \in {2, 3}
    /\ \A i \in 1 .. Len(Parts) : AllDigits(Parts[i])

Wins == DigitsValue(Parts[1])
Losses == DigitsValue(Parts[2])
Draws == IF Len(Parts) = 3 THEN DigitsValue(Parts[3]) ELSE 0

RecordAbsent ==
    \A i \in 1 .. Len(competitor.records) :
        \/ Lower(competitor.records[i].type) \notin AcceptedRecordTypes
        \/ competitor.records[i].summary = RawNone

\* the one record is not a string, has fewer than two parts, has a part
\* that is not an integer, or sums to zero games
Malformed ==
    /\ Len(competitor.records) = 1
    /\ competitor.records[1].type = <<"t", "o", "t", "a", "l">>
    /\ \/ competitor.records[1].summary.kind # "str"
       \/ Len(Parts) < 2
       \/ \E i \in 1 .. Len(Parts) : ~int(Parts[i]).ok
       \/ /\ \A i \in 1 .. Len(Parts) : int(Parts[i]).ok
          /\ int(Parts[1]).v + int(Parts[2]).v
               + (IF Len(Parts) >= 3 THEN int(Parts[3]).v ELSE 0) = 0

\* C10: when the record is absent, not a string, has fewer than two
\* hyphen-separated parts, has a non-integer part or sums to zero games,
\* the estimator returns the neutral default: strength 0.5, games 0 and
\* zero wins, draws and losses.
C10_NeutralDefault ==
    (Extracted /\ (RecordAbsent \/ Malformed))
      => record_data = [w |-> 0, d |-> 0, l |-> 0, games |-> 0, ppg |-> Q(1, 2)]

-----------------------------------------------------------------------------
(* SpecLambdas: _compute_bayesian_lambdas applied to a book total and the  *)
(* records of the two sides.                                               *)

\* the largest book total drawn, in halves of a goal
MaxBookHalves == 24

BookTotals == {NoneQ} \cup { Some(Q(k, 2)) : k \in -2 .. MaxBookHalves }

TotalRecord(summary) == [records |-> <<Record(<<"t", "o", "t", "a", "l">>, summary)>>]

SideRecords ==
    { TotalRecord(RawStr(s)) :
        s \in {<<"0", "-", "0", "-", "0">>, <<"1", "-", "0">>, <<"0", "-", "1">>,
               <<"1", "-", "1">>, <<"1", "0", "-", "5", "-", "3">>,
               <<"3", "-", "0", "-", "0">>, <<"0", "-", "1", "-", "2">>,
               <<"1", "-", "x">>, <<"1", "-", "1", "-", "1", "-", "x">>} }
    \cup {TotalRecord(RawNone), NoCompetitor}

InitLambdas ==
    /\ lambda_args \in [book_over_under : BookTotals, home_comp : SideRecords,
                        away_comp : SideRecords]
    /\ lambdas = NoLambdas
    /\ Idle("Lambdas")

ComputeBayesianLambdas ==
    /\ lambdas = NoLambdas
    /\ lambdas' = _compute_bayesian_lambdas(lambda_args.book_over_under,
                                            lambda_args.home_comp,
                                            lambda_args.away_comp)
    /\ UNCHANGED lambda_args
    /\ Unchanged("Lambdas")

NextLambdas == ComputeBayesianLambdas

SpecLambdas == InitLambdas /\ [][NextLambdas]_vars

Computed == lambdas # NoLambdas

InRange(lambda) == GeQ(lambda, Q(1, 5)) /\ LeQ(lambda, Q(19, 5))

\* C11: whatever the book total (absent, zero, negative or positive) and the
\* records of the two sides, both goal rates of the Bayesian model lie in
\* [0.2, 3.8].
C11_RatesInRange ==
    Computed => InRange(lambdas.lambda_home) /\ InRange(lambdas.lambda_away)

\* a rate held at the upper bound by the final clamp, and one computed from
\* a zero book total
C11_Witness ==
    /\ Computed
    /\ lambda_args.book_over_under = Some(F(12))
    /\ lambdas.lambda_home = Q(19, 5)
    /\ GtQ(lambdas.prior_lambda_home, Q(19, 5))

\* the records of a side that has played no game: absent, malformed or "0-0-0"
NoGamesRecords ==
    { TotalRecord(RawStr(s)) :
        s \in {<<"0", "-", "0", "-", "0">>, <<"1", "-", "x">>,
               <<"1", "-", "1", "-", "1", "-", "x">>} }
    \cup {TotalRecord(RawNone), NoCompetitor}

\* C12: a side that has played no game (record absent, malformed or "0-0-0")
\* gets its share of the blended prior total as its goal rate, 55% at home and
\* 45% away, whatever the strength of either team; with no market total and
\* both records "0-0-0" the rates are 1.43 and 1.17.
C12_PriorShare ==
    Computed =>
        /\ lambda_args.home_comp \in NoGamesRecords =>
               lambdas.lambda_home = MulQ(lambdas.total_prior, Q(11, 20))
        /\ lambda_args.away_comp \in NoGamesRecords =>
               lambdas.lambda_away = MulQ(lambdas.total_prior, Q(9, 20))
        /\ ( /\ lambda_args.book_over_under = NoneQ
             /\ lambda_args.home_comp = TotalRecord(RawStr(<<"0", "-", "0", "-", "0">>))
             /\ lambda_args.away_comp = TotalRecord(RawStr(<<"0", "-", "0", "-", "0">>)) ) =>
               lambdas.lambda_home = Q(143, 100) /\ lambdas.lambda_away = Q(117, 100)

\* 0.7 * book_total + 0.3 * 2.6
Blended(book_total) == AddQ(MulQ(Q(7, 10), book_total), Q(39, 50))

SplitOf(total) ==
    /\ lambdas.prior_lambda_home = MulQ(total, Q(11, 20))
    /\ lambdas.prior_lambda_away = MulQ(total, Q(9, 20))

\* C13 as stated: the prior total is the blend whenever a market total is
\* available and the league prior alone only when none is.
C13_PriorAsStated ==
    Computed =>
        /\ lambdas.total_prior = IF lambda_args.book_over_under.some
                                 THEN Blended(lambda_args.book_over_under.v)
                                 ELSE Q(13, 5)
        /\ SplitOf(lambdas.total_prior)

\* C13: the prior total is 0.7 * book_total + 0.3 * 2.6 whenever a positive
\* market total is available, and the league prior 2.6 alone when the market
\* total is absent, zero or negative; it is split 55% to the home side and 45%
\* to the away side.
C13_Prior ==
    Computed =>
        /\ lambdas.total_prior =
               IF /\ lambda_args.book_over_under.some
                  /\ GtQ(lambda_args.book_over_under.v, F(0))
               THEN Blended(lambda_args.book_over_under.v)
               ELSE Q(13, 5)
        /\ SplitOf(lambdas.total_prior)

\* a market total of 2.5 blended to 2.53 and split 1.3915 / 1.1385
C13_Witness ==
    /\ Computed
    /\ lambda_args.book_over_under = Some(Q(5, 2))
    /\ lambdas.total_prior = Q(253, 100)
    /\ lambdas.prior_lambda_home = Q(2783, 2000)
    /\ lambdas.prior_lambda_away = Q(2277, 2000)

-----------------------------------------------------------------------------
(* SpecPoisson: _poisson_score_matrix applied to a pair of goal rates of   *)
(* [0.2, 3.8] with the max_goals of the projection.                        *)

\* the number of steps the range [0.2, 3.8] is cut into
RateSteps == 9

RateGrid ==
    { AddQ(Q(1, 5), Q(18 * k, 5 * RateSteps)) : k \in 0 .. RateSteps }
    \cup {Q(143, 100), Q(117, 100)}

InitPoisson ==
    /\ rates \in [lambda_home : RateGrid, lambda_away : RateGrid]
    /\ matrix = NoMatrix
    /\ Idle("Poisson")

PoissonScoreMatrix ==
    /\ matrix = NoMatrix
    /\ matrix' = _poisson_score_matrix(rates.lambda_home, rates.lambda_away,
                                       score_matrix_max_goals)
    /\ UNCHANGED rates
    /\ Unchanged("Poisson")

NextPoisson == PoissonScoreMatrix

SpecPoisson == InitPoisson /\ [][NextPoisson]_vars

IsProbability(p) == GeQ(p, F(0)) /\ LeQ(p, F(1))

\* a marginal pmf over 0 .. max_goals: no bucket is negative, the buckets add
\* up to 1 and the last one holds what the others leave
Marginal(pmf) ==
    /\ Len(pmf) = score_matrix_max_goals + 1
    /\ \A k \in 1 .. Len(pmf) : GeQ(pmf[k], F(0))
    /\ SumQ(pmf) = F(1)
    /\ pmf[Len(pmf)] = SubQ(F(1), SumQ(SubSeq(pmf, 1, Len(pmf) - 1)))

\* C14: for every pair of goal rates of [0.2, 3.8] and max_goals = 10 the
\* Poisson engine conserves mass: each marginal pmf over 0..10 is non-negative
\* and sums to 1, its bucket 10 holding 1 minus the sum of the buckets 0..9;
\* the p_total[k] for k in 0..20 sum to 1; and p_home_win + p_draw + p_away_win
\* is 1 with each of the three in [0, 1].
C14_MassConserved ==
    matrix # NoMatrix =>
        /\ Marginal(matrix.pmf_home)
        /\ Marginal(matrix.pmf_away)
        /\ Len(matrix.p_total) = 2 * score_matrix_max_goals + 1
        /\ SumQ(matrix.p_total) = F(1)
        /\ AddQ(AddQ(matrix.p_home_win, matrix.p_draw), matrix.p_away_win) = F(1)
        /\ IsProbability(matrix.p_home_win)
        /\ IsProbability(matrix.p_draw)
        /\ IsProbability(matrix.p_away_win)

\* the matrix of the rates 3.8 and 0.2: mass is left for the tail bucket of
\* the home side, a total of 10 goals is possible, and the home side is the
\* likelier winner
C14_Witness ==
    /\ matrix # NoMatrix
    /\ rates = [lambda_home |-> Q(19, 5), lambda_away |-> Q(1, 5)]
    /\ GtQ(matrix.pmf_home[11], F(0))
    /\ GtQ(matrix.p_total[11], F(0))
    /\ GtQ(matrix.p_home_win, matrix.p_away_win)
    /\ GtQ(matrix.p_draw, F(0))

-----------------------------------------------------------------------------
(* SpecSoccer: soccer_game_projection answers one request, given the       *)
(* scoreboard and the odds of the provider.                                *)

SoccerSide(side, summary) ==
    [homeAway |-> side, records |-> <<Record(<<"t", "o", "t", "a", "l">>, summary)>>]

SoccerSummaries ==
    {RawNone, RawStr(<<"0", "-", "0", "-", "0">>), RawStr(<<"1", "-", "0">>),
     RawStr(<<"0", "-", "1">>), RawStr(<<"1", "0", "-", "5", "-", "3">>),
     RawStr(<<"1", "-", "1", "-", "1">>)}

SoccerEvent(id, competitors) == [id |-> id, competitors |-> competitors]

SoccerBoard(events) == [present |-> TRUE, has_events |-> TRUE, events |-> events]

SoccerOdds ==
    {[present |-> FALSE, items |-> <<>>], [present |-> TRUE, items |-> <<>>]}
    \cup { [present |-> TRUE, items |-> <<[overUnder |-> ou], [overUnder |-> RawNum(F(9))]>>] :
             ou \in {RawNone, RawStr(<<"N", "/", "A">>), RawStr(<<"3">>),
                     RawNum(F(0)), RawNum(Q(1, 2)), RawNum(Q(7, 2)), RawNum(F(12))} }

SoccerPayload(scoreboard, odds_data) ==
    [kind |-> "soccer", event_id |-> "E1", scoreboard |-> scoreboard,
     odds_data |-> odds_data]

SoccerPayloads ==
    { SoccerPayload(SoccerBoard(<<SoccerEvent("E2", <<>>),
                                  SoccerEvent("E1", <<SoccerSide("away", a),
                                                      SoccerSide("home", h)>>)>>),
                    odds) :
        h \in SoccerSummaries, a \in SoccerSummaries, odds \in SoccerOdds }
    \cup
    { SoccerPayload(sb, [present |-> FALSE, items |-> <<>>]) :
        sb \in {[present |-> FALSE, has_events |-> FALSE, events |-> <<>>],
                [present |-> TRUE, has_events |-> FALSE, events |-> <<>>],
                SoccerBoard(<<>>),
                SoccerBoard(<<SoccerEvent("E2", <<>>)>>),
                SoccerBoard(<<SoccerEvent("E1", <<>>)>>),
                SoccerBoard(<<SoccerEvent("E1", <<SoccerSide("home", RawNone)>>)>>),
                SoccerBoard(<<SoccerEvent("E1", <<SoccerSide("home", RawNone),
                                                  SoccerSide("neutral", RawNone)>>)>>),
                SoccerBoard(<<SoccerEvent("E1", <<SoccerSide("home", RawStr(<<"0", "-", "1">>)),
                                                  SoccerSide("away", RawNone),
                                                  SoccerSide("home", RawStr(<<"1", "-", "0">>))>>)>>)} }

InitSoccer ==
    /\ payload \in SoccerPayloads
    /\ response = NoResponse
    /\ Idle("Eval")

SoccerGameProjection ==
    /\ payload.kind = "soccer"
    /\ Respond(soccer_game_projection(payload))

NextSoccer == SoccerGameProjection

SpecSoccer == InitSoccer /\ [][NextSoccer]_vars

SoccerProjected == response.status = 200 /\ response.handler = "soccer_game_projection"

\* the sum of the two reported 1X2 probabilities that a double chance covers
PairSum(pick) ==
    IF pick = "1X" THEN AddQ(response.prob_1, response.prob_X)
    ELSE IF pick = "X2" THEN AddQ(response.prob_X, response.prob_2)
    ELSE AddQ(response.prob_1, response.prob_2)

\* the reported probability of the outcome that a double chance leaves out
Excluded(pick) ==
    IF pick = "1X" THEN response.prob_2
    ELSE IF pick = "X2" THEN response.prob_1
    ELSE response.prob_X

\* C15: the double-chance probabilities are the pairwise sums of the reported
\* 1X2 probabilities (1X = prob_1 + prob_X, X2 = prob_X + prob_2,
\* 12 = prob_1 + prob_2), each is 1 minus the probability of the outcome it
\* leaves out, the reported double chance is the largest of them, and its
\* probability is never below that of the reported best 1X2 outcome.
C15_DoubleChance ==
    SoccerProjected =>
        /\ response.double_chance_best.pick \in {"1X", "X2", "12"}
        /\ response.double_chance_best.prob = PairSum(response.double_chance_best.pick)
        /\ \A pick \in {"1X", "X2", "12"} :
               /\ PairSum(pick) = SubQ(F(1), Excluded(pick))
               /\ GeQ(response.double_chance_best.prob, PairSum(pick))
        /\ response.pick_1x2.prob \in {response.prob_1, response.prob_X, response.prob_2}
        /\ GeQ(response.double_chance_best.prob, response.pick_1x2.prob)

\* a likely draw whose best double chance is draw or away
C15_Witness ==
    /\ SoccerProjected
    /\ response.pick_1x2.pick = "X"
    /\ response.double_chance_best.pick = "X2"
    /\ GtQ(response.double_chance_best.prob, response.pick_1x2.prob)
    /\ LtQ(response.double_chance_best.prob, F(1))

-----------------------------------------------------------------------------
(* SpecStreak: build_streaks_for_date for the one player of the rosters.   *)

MaxStreakGames == 6

StreakRaws == {RawStr(<<"1", ",", "2", "3", "4">>), RawStr(<<"2", "0">>), RawStr(<<"x">>)}

StreakNames == {<<"p", "o", "i", "n", "t", "s">>, <<"R", "E", "B">>, <<"m", "i", "n", "u", "t", "e", "s">>}

InitStreak ==
    /\ player_gamelog \in
           {FailedGamelog}
           \cup { IndexedGamelog(<<name>>, series) :
                    name \in StreakNames, series \in SeqsUpTo(StreakRaws, MaxStreakGames) }
    /\ buckets = NoBuckets
    /\ Idle("Streak")

BuildStreaksForDate ==
    /\ buckets = NoBuckets
    /\ buckets' = build_streaks_for_date(player_gamelog)
    /\ UNCHANGED player_gamelog
    /\ Unchanged("Streak")

NextStreak == BuildStreaksForDate

SpecStreak == InitStreak /\ [][NextStreak]_vars

-----------------------------------------------------------------------------
(* Properties of the streak detector (SpecStreak).                         *)

Built == buckets # NoBuckets /\ player_gamelog.present

\* the run of a threshold: the number of most recent games before the first
\* one below the threshold
RunOf(series, threshold) ==
    CHOOSE n \in 0 .. Len(series) :
        /\ \A i \in 1 .. n : GeQ(series[i], F(threshold))
        /\ n < Len(series) => LtQ(series[n + 1], F(threshold))

\* the thresholds of a ladder whose run is long enough
Qualifying(series, ladder, min_len) ==
    {t \in 1 .. Len(ladder) : RunOf(series, ladder[t]) >= min_len}

\* what the detector is to report for a series
Reported(series, ladder, min_len) ==
    IF Qualifying(series, ladder, min_len) = {} THEN <<>>
    ELSE LET t == CHOOSE t \in Qualifying(series, ladder, min_len) :
                      \A u \in Qualifying(series, ladder, min_len) : t <= u
         IN  <<[threshold |-> ladder[t], streak |-> RunOf(series, ladder[t])]>>

\* C16: for each statistic of the player the detector walks the ladder from
\* the highest threshold to the lowest and reports at most one record: the
\* first (highest) threshold whose run of consecutive most recent games with
\* a value >= threshold, stopping at the first value below it, has length
\* >= min_len, together with that run length, and nothing when no threshold
\* qualifies; [25,22,20,18,10] with thresholds [23,18] and min_len 2 gives
\* (threshold 18, streak 4).
C16_FirstThreshold ==
    /\ Built =>
           \A stat_key \in DOMAIN DEFAULT_THRESHOLDS :
               /\ Len(buckets.raw[stat_key]) <= 1
               /\ \A t \in 2 .. Len(DEFAULT_THRESHOLDS[stat_key]) :
                      DEFAULT_THRESHOLDS[stat_key][t - 1] > DEFAULT_THRESHOLDS[stat_key][t]
               /\ buckets.raw[stat_key] =
                      Reported(_extract_stat_series(player_gamelog, stat_key),
                               DEFAULT_THRESHOLDS[stat_key], min_streak_len)
    /\ first_streak(<<F(25), F(22), F(20), F(18), F(10)>>, <<23, 18>>, 2)
           = <<[threshold |-> 18, streak |-> 4]>>

\* the highest threshold fails and a lower one is reported, with a run that
\* an older game ends
C16_Witness ==
    /\ Built
    /\ player_gamelog.names = <<<<"p", "o", "i", "n", "t", "s">>>>
    /\ Len(_extract_stat_series(player_gamelog, "points")) = 6
    /\ buckets.raw["points"] = <<[threshold |-> 18, streak |-> 5]>>
    /\ buckets.raw["rebounds"] = <<>>

\* the raw values of the player's one stat column, most recent game first
StreakRawsThen ==
    Reversed([i \in 1 .. Len(player_gamelog.seasonTypes[1].categories[1]) |->
                 player_gamelog.seasonTypes[1].categories[1][i].stats[1]])

\* the series that skips what does not parse
SkippingSeries ==
    LET parsable == SelectSeq(StreakRawsThen, LAMBDA raw : float_without_commas(raw).ok)
    IN  [i \in 1 .. Len(parsable) |-> float_without_commas(parsable[i]).v]

\* C20: the streak series holds the parsed values of the raw values that
\* parse, "1,234" as 1234, and nothing for a raw value that does not parse,
\* so that the streaks reported are those of that series.
C20_UnparsableSkipped ==
    Built =>
        /\ float_without_commas(RawStr(<<"1", ",", "2", "3", "4">>)) = Parsed(F(1234))
        /\ \A stat_key \in DOMAIN DEFAULT_THRESHOLDS :
               _find_stat_index(player_gamelog.names, ALIASES[stat_key]) >= 0 =>
                   /\ _extract_stat_series(player_gamelog, stat_key) = SkippingSeries
                   /\ buckets.raw[stat_key] = player_streaks(SkippingSeries, stat_key)

-----------------------------------------------------------------------------
(* SpecCache: one caller at a time reads and writes the cache while the    *)
(* clock advances.                                                         *)

MaxClock == 4
ClockStep == 450

CacheKeys == {"nfl:scoreboard:2:1", "nfl:odds:E1"}

\* the provider's bodies; response.json() of the body null is None
CacheValues == {"a", "b", None}

TtlSeconds == {default_ttl_seconds, espn_cache_ttl_seconds}

InitCache ==
    /\ _cache = <<>>
    /\ now = 0
    /\ returned = NoReturned
    /\ frames = NoFrames
    /\ Idle("Cache")

GetFromCache(key, ttl_seconds) ==
    /\ returned' = [op |-> "get_from_cache", key |-> key, ttl_seconds |-> ttl_seconds,
                    value |-> get_from_cache(_cache, now, key, ttl_seconds).value]
    /\ _cache' = get_from_cache(_cache, now, key, ttl_seconds).cache
    /\ UNCHANGED <<now, frames>>
    /\ Unchanged("Cache")

SetInCache(key, value) ==
    /\ returned' = [op |-> "set_in_cache", key |-> key, ttl_seconds |-> 0, value |-> None]
    /\ _cache' = set_in_cache(_cache, now, key, value)
    /\ UNCHANGED <<now, frames>>
    /\ Unchanged("Cache")

\* time passes
Tick ==
    /\ now < MaxClock * ClockStep
    /\ now' = now + ClockStep
    /\ UNCHANGED <<_cache, returned, frames>>
    /\ Unchanged("Cache")

NextCache ==
    \/ \E key \in CacheKeys, ttl_seconds \in TtlSeconds : GetFromCache(key, ttl_seconds)
    \/ \E key \in CacheKeys, value \in CacheValues : SetInCache(key, value)
    \/ Tick

SpecCache == InitCache /\ [][NextCache]_vars

-----------------------------------------------------------------------------
(* Properties of the cache (SpecCache).                                    *)

\* the age of the entry of a key the cache holds
Age(key) == now - _cache[key][1]

\* C17: the cache expires entries by wall-clock TTL alone.  set_in_cache
\* stamps the entry with the time of the call and removes nothing;
\* get_from_cache(key, ttl) returns the stored value when the key has an
\* entry whose age is at most ttl and None otherwise, and it removes an
\* entry only when that entry is the one it read and found older than ttl;
\* the passing of time alone removes nothing.
C17_WallClockTtl ==
    [][/\ \A key \in CacheKeys, value \in CacheValues :
              SetInCache(key, value) =>
                  /\ DOMAIN _cache' = DOMAIN _cache \cup {key}
                  /\ _cache'[key] = <<now, value>>
                  /\ \A k \in DOMAIN _cache \ {key} : _cache'[k] = _cache[k]
       /\ \A key \in CacheKeys, ttl_seconds \in TtlSeconds :
              GetFromCache(key, ttl_seconds) =>
                  /\ returned'.value =
                         IF key \in DOMAIN _cache /\ Age(key) <= ttl_seconds
                         THEN _cache[key][2] ELSE None
                  /\ DOMAIN _cache' =
                         IF key \in DOMAIN _cache /\ Age(key) > ttl_seconds
                         THEN DOMAIN _cache \ {key} ELSE DOMAIN _cache
                  /\ \A k \in DOMAIN _cache' : _cache'[k] = _cache[k]
       /\ Tick => _cache' = _cache
       /\ \A key \in DOMAIN _cache \ DOMAIN _cache' :
              /\ returned'.op = "get_from_cache"
              /\ returned'.key = key
              /\ Age(key) > returned'.ttl_seconds]_vars

\* a read at the very end of the TTL returned the stored value, and a read
\* of another key one tick later found its entry expired and removed it
C17_Witness ==
    /\ returned.op = "get_from_cache"
    /\ returned.value = None
    /\ returned.key \notin DOMAIN _cache
    /\ \E key \in DOMAIN _cache :
           /\ Age(key) = espn_cache_ttl_seconds
           /\ get_from_cache(_cache, now, key, espn_cache_ttl_seconds).value = _cache[key][2]
           /\ _cache[key][2] # None

-----------------------------------------------------------------------------
(* SpecFetch: requests in flight at once, each in one provider client,     *)
(* over a cache that is empty or holds an entry about to expire.           *)

RequestIds == {1, 2}

Clients == {"fetch_scoreboard_data", "fetch_nba_player_gamelog"}

FetchBodies == {"a", "b"}

\* get_from_cache, line 9: now = time.time()
GetNow(r) ==
    /\ At(r, "get_from_cache")
    /\ frames' = [frames EXCEPT ![r].now = now, ![r].pc = "key in _cache"]
    /\ UNCHANGED <<_cache, now, returned>>
    /\ Unchanged("Cache")

\* get_from_cache, line 10: if key in _cache; without the key it returns
\* None and the client goes on to the provider
KeyInCache(r) ==
    /\ At(r, "key in _cache")
    /\ frames' = [frames EXCEPT ![r].pc = IF scoreboard_key \in DOMAIN _cache
                                          THEN "_cache[key]" ELSE "requests.get"]
    /\ UNCHANGED <<_cache, now, returned>>
    /\ Unchanged("Cache")

\* get_from_cache, lines 11 to 13: ts, value = _cache[key] raises KeyError
\* when the key is gone; a fresh value that is not None is returned by the
\* client (lines 22 to 24), a fresh None sends it to the provider, an
\* expired entry is to be deleted
ReadEntry(r) ==
    /\ At(r, "_cache[key]")
    /\ frames' =
           IF scoreboard_key \notin DOMAIN _cache
           THEN [frames EXCEPT ![r].pc = "KeyError"]
           ELSE [frames EXCEPT
                    ![r].ts = _cache[scoreboard_key][1],
                    ![r].value = _cache[scoreboard_key][2],
                    ![r].result = IF frames[r].now - _cache[scoreboard_key][1] <= espn_cache_ttl_seconds
                                  THEN _cache[scoreboard_key][2] ELSE None,
                    ![r].pc = IF frames[r].now - _cache[scoreboard_key][1] <= espn_cache_ttl_seconds
                              THEN IF _cache[scoreboard_key][2] # None THEN "return" ELSE "requests.get"
                              ELSE "del _cache[key]"]
    /\ UNCHANGED <<_cache, now, returned>>
    /\ Unchanged("Cache")

\* get_from_cache, lines 16 and 17: del _cache[key] raises KeyError when the
\* key is gone
DelEntry(r) ==
    /\ At(r, "del _cache[key]")
    /\ IF scoreboard_key \in DOMAIN _cache
       THEN /\ _cache' = [k \in DOMAIN _cache \ {scoreboard_key} |-> _cache[k]]
            /\ frames' = [frames EXCEPT ![r].pc = "requests.get"]
       ELSE /\ frames' = [frames EXCEPT ![r].pc = "KeyError"]
            /\ UNCHANGED _cache
    /\ UNCHANGED <<now, returned>>
    /\ Unchanged("Cache")

\* requests.get, raise_for_status and json succeed with the body `data':
\* fetch_scoreboard_data goes on to set_in_cache, fetch_nba_player_gamelog
\* returns the body
RequestsGet(r, data) ==
    /\ At(r, "requests.get")
    /\ frames' = IF frames[r].client = "fetch_scoreboard_data"
                 THEN [frames EXCEPT ![r].data = data, ![r].pc = "time.time"]
                 ELSE [frames EXCEPT ![r].data = data, ![r].result = data, ![r].pc = "return"]
    /\ UNCHANGED <<_cache, now, returned>>
    /\ Unchanged("Cache")

\* requests.get or raise_for_status raises a requests.RequestException (no
\* connection, timeout, HTTP error): fetch_scoreboard_data catches it and
\* returns None; fetch_nba_player_gamelog has no handler, and its callers
\* in routes_nba.py catch ValueError only
RequestsGetFails(r) ==
    /\ At(r, "requests.get")
    /\ frames' = IF frames[r].client = "fetch_scoreboard_data"
                 THEN [frames EXCEPT ![r].result = None, ![r].pc = "return"]
                 ELSE [frames EXCEPT ![r].pc = "RequestException"]
    /\ UNCHANGED <<_cache, now, returned>>
    /\ Unchanged("Cache")

\* set_in_cache, line 21: the time.time() of the tuple
TimeTime(r) ==
    /\ At(r, "time.time")
    /\ frames' = [frames EXCEPT ![r].stamp = now, ![r].pc = "_cache[key] ="]
    /\ UNCHANGED <<_cache, now, returned>>
    /\ Unchanged("Cache")

\* set_in_cache, line 21: the store of the tuple; the client returns data
Store(r) ==
    /\ At(r, "_cache[key] =")
    /\ _cache' = set_in_cache(_cache, frames[r].stamp, scoreboard_key, frames[r].data)
    /\ frames' = [frames EXCEPT ![r].result = frames[r].data, ![r].pc = "return"]
    /\ UNCHANGED <<now, returned>>
    /\ Unchanged("Cache")

InitFetch ==
    /\ _cache \in {<<>>, set_in_cache(<<>>, 0, scoreboard_key, "a")}
    /\ now = 0
    /\ returned = NoReturned
    /\ frames \in { [r \in RequestIds |-> EnterFrame(client[r])] : client \in [RequestIds -> Clients] }
    /\ Idle("Cache")

NextFetch ==
    \/ Tick
    \/ \E r \in RequestIds :
           \/ GetNow(r)
           \/ KeyInCache(r)
           \/ ReadEntry(r)
           \/ DelEntry(r)
           \/ \E data \in FetchBodies : RequestsGet(r, data)
           \/ RequestsGetFails(r)
           \/ TimeTime(r)
           \/ Store(r)

SpecFetch == InitFetch /\ [][NextFetch]_vars

-----------------------------------------------------------------------------
(* Properties of the requests in flight (SpecFetch).                       *)

C19_NoDataOnFailure ==
    [][\A r \in DOMAIN frames :
          RequestsGetFails(r) =>
              /\ frames'[r].pc = "return"
              /\ frames'[r].result = None
              /\ _cache' = _cache]_vars

\* the del of get_from_cache by request r removes an entry that is within
\* the TTL at the time of the del
RemovesFresh(r) ==
    /\ DelEntry(r)
    /\ scoreboard_key \in DOMAIN _cache
    /\ now - _cache[scoreboard_key][1] <= espn_cache_ttl_seconds

-----------------------------------------------------------------------------
(* SpecExtract: one gamelog of several season segments and two stat        *)
(* columns, with or without games in the legacy shape, and the base        *)
(* projection of each sport for a market.  projection holds the locals of  *)
(* the extractor at return.                                                *)

Segment(splitType, displayName, events) ==
    [splitType |-> splitType, displayName |-> displayName, categories |-> <<events>>]

Event(first, second) == [stats |-> <<RawStr(first), RawStr(second)>>]

ExtractSegments ==
    {Segment("1", <<"2024", "Preseason">>, <<Event(<<"1">>, <<"2">>)>>),
     Segment("2", <<"2024", "Regular", "Season">>, <<Event(<<"3">>, <<"4">>), Event(<<"5">>, <<"x">>)>>),
     Segment("0", <<"2024", "Regular", "Season">>, <<Event(<<"x">>, <<"6">>)>>),
     Segment("3", <<"2024", "Postseason">>, <<Event(<<"7">>, <<"8">>)>>)}

MaxSegments == 2

ExtractNames ==
    {<<>>,
     <<<<"r", "u", "s", "h", "i", "n", "g", "Y", "a", "r", "d", "s">>, <<"p", "o", "i", "n", "t", "s">>>>,
     <<<<"R", "u", "s", "h", "i", "n", "g", "Y", "a", "r", "d", "s">>, <<"P", "T", "S">>>>,
     <<<<"f", "a", "s", "t", "B", "r", "e", "a", "k", "P", "o", "i", "n", "t", "s">>, <<"p", "o", "i", "n", "t", "s">>>>,
     <<<<"l", "o", "n", "g", "R", "u", "s", "h", "i", "n", "g", "Y", "a", "r", "d", "s">>, <<"f", "a", "s", "t", "B", "r", "e", "a", "k", "P", "o", "i", "n", "t", "s">>>>,
     <<<<"m", "i", "n", "u", "t", "e", "s">>, <<"r", "u", "s", "h", "i", "n", "g", "Y", "a", "r", "d", "s">>>>,
     <<<<"m", "i", "n", "u", "t", "e", "s">>, <<"m", "i", "n", "u", "t", "e", "s">>>>}

\* a game of the legacy shape with the points of a basketball player
LegacyPoints(raw) ==
    [stats |-> <<[name |-> "points", value |-> raw, displayValue |-> RawNone]>>,
     boxscore |-> <<>>]

ExtractMarkets == {"rushing_yards", "points", "steals"}

ExtractGamelogs ==
    {[FailedGamelog EXCEPT !.present = FALSE]}
    \cup { [present |-> TRUE, names |-> names, seasonTypes |-> season_types,
            events |-> events, gamelog |-> <<>>, games |-> <<>>] :
             names \in ExtractNames,
             season_types \in SeqsUpTo(ExtractSegments, MaxSegments),
             events \in {<<>>, <<LegacyGame(RawStr(<<"9">>))>>, <<LegacyPoints(RawStr(<<"9">>))>>} }

InitExtract ==
    /\ gamelog \in ExtractGamelogs
    /\ games_window = 5
    /\ projection = NoProjection
    /\ Idle("Series")

NflBaseProjection(market_type) ==
    /\ projection = NoProjection
    /\ projection' =
           [path |-> "nfl", market_type |-> market_type,
            events |-> _get_regular_season_events_from_indexed_gamelog(gamelog),
            stat_idx |-> IF market_type \in DOMAIN market_to_name
                         THEN IndexOf(gamelog.names, market_to_name[market_type]) ELSE -1,
            value |-> nfl_compute_base_projection_from_gamelog(gamelog, market_type, games_window)]
    /\ UNCHANGED <<gamelog, games_window>>
    /\ Unchanged("Series")

NbaBaseProjection(market_type) ==
    /\ projection = NoProjection
    /\ projection' =
           [path |-> "nba", market_type |-> market_type,
            events |-> _extract_regular_season_events(gamelog),
            stat_idx |-> IF market_type \in DOMAIN market_aliases
                         THEN _find_stat_index(gamelog.names, market_aliases[market_type]) ELSE -1,
            value |-> nba_compute_base_projection_from_gamelog(gamelog, market_type, games_window)]
    /\ UNCHANGED <<gamelog, games_window>>
    /\ Unchanged("Series")

NextExtract ==
    \E market_type \in ExtractMarkets :
        \/ NflBaseProjection(market_type)
        \/ NbaBaseProjection(market_type)

SpecExtract == InitExtract /\ [][NextExtract]_vars

-----------------------------------------------------------------------------
(* Properties of the extractors (SpecExtract).                             *)

ExtractorRan == projection # NoProjection /\ gamelog.present

\* the segments of the gamelog that are of the regular season
RegularSegments ==
    {i \in 1 .. Len(gamelog.seasonTypes) :
        \/ gamelog.seasonTypes[i].splitType = "2"
        \/ /\ Len(gamelog.seasonTypes[i].displayName) >= 2
           /\ SubSeq(gamelog.seasonTypes[i].displayName,
                     Len(gamelog.seasonTypes[i].displayName) - 1,
                     Len(gamelog.seasonTypes[i].displayName)) = <<"Regular", "Season">>}

\* the events of a segment, and of all the segments together
EventsOf(i) == gamelog.seasonTypes[i].categories[1]

RECURSIVE MergedEvents(_)
MergedEvents(i) ==
    IF i > Len(gamelog.seasonTypes) THEN <<>> ELSE EventsOf(i) \o MergedEvents(i + 1)

\* C21: with a regular-season segment in the gamelog the extractor of each
\* sport takes the events of the (first) regular-season segment and no
\* others; without one it takes the events of all the segments, merged.
C21_RegularSeasonOnly ==
    ExtractorRan =>
        projection.events =
            IF RegularSegments # {}
            THEN EventsOf(CHOOSE i \in RegularSegments : \A j \in RegularSegments : i <= j)
            ELSE MergedEvents(1)

\* the vocabulary of each extractor, and the name of a market in the legacy
\* {name, value} format
KnownMarket ==
    \/ projection.path = "nfl" /\ projection.market_type = "rushing_yards"
    \/ projection.path = "nba" /\ projection.market_type = "points"

LegacyName == IF projection.market_type = "points" THEN "points" ELSE "rushYds"

\* what the indexed format yields: the values that parse in the column of
\* the statistic, over the events the extractor took, most recent first
IndexedYield ==
    IF projection.stat_idx < 0 THEN <<>>
    ELSE LET raws == [i \in 1 .. Len(projection.events) |->
                         Reversed(projection.events)[i].stats[projection.stat_idx + 1]]
             parsable == SelectSeq(raws, LAMBDA raw : float_without_commas(raw).ok)
         IN  [i \in 1 .. Len(parsable) |-> float_without_commas(parsable[i]).v]

\* what the legacy format yields: the values that parse under the name of
\* the statistic, over the legacy games, most recent first
LegacyYield ==
    LET games == SelectSeq(Reversed(gamelog.events),
                           LAMBDA game : /\ game.stats[1].name = LegacyName
                                         /\ float(game.stats[1].value).ok)
    IN  [i \in 1 .. Len(games) |-> float(games[i].stats[1].value).v]

\* C22: for a market of its vocabulary the extractor of each sport returns
\* the mean of what the indexed format yields whenever that is at least one
\* value, the mean of what the legacy format yields when the indexed format
\* yields nothing, and 0.0 when neither yields data.
C22_IndexedThenLegacy ==
    (ExtractorRan /\ KnownMarket) =>
        projection.value =
            IF IndexedYield # <<>> THEN Mean(FirstN(IndexedYield, games_window))
            ELSE IF LegacyYield # <<>> THEN Mean(FirstN(LegacyYield, games_window))
            ELSE F(0)

\* the alias list of the statistic of the market: the football extractor
\* knows one name for it
AliasesOf ==
    IF projection.path = "nfl" THEN {market_to_name[projection.market_type]}
    ELSE {market_aliases[projection.market_type][a] :
             a \in 1 .. Len(market_aliases[projection.market_type])}

\* the columns whose name is an alias, and those whose name contains one,
\* whatever the case of the letters
ExactColumns ==
    {i \in 1 .. Len(gamelog.names) : \E a \in AliasesOf : Lower(gamelog.names[i]) = Lower(a)}

SubstringColumns ==
    {i \in 1 .. Len(gamelog.names) : \E a \in AliasesOf : Contains(Lower(gamelog.names[i]), Lower(a))}

\* C23: the column resolved for the statistic is one whose name is an alias
\* (case-insensitively) when there is such a column, otherwise one whose
\* name contains an alias, and there is no column exactly when neither
\* match succeeds, in the football and in the basketball extractor.
C23_ExactThenSubstring ==
    (ExtractorRan /\ KnownMarket) =>
        IF ExactColumns # {} THEN projection.stat_idx + 1 \in ExactColumns
        ELSE IF SubstringColumns # {} THEN projection.stat_idx + 1 \in SubstringColumns
        ELSE projection.stat_idx = -1

-----------------------------------------------------------------------------
(* Properties of the auto-projection handlers on a market they do not      *)
(* know (SpecEval).                                                        *)

\* the handler got as far as the base projection: the scoreboard was there,
\* the event was found and the athlete id was accepted
ReachedBase ==
    /\ response # NoResponse
    /\ payload.kind = "auto"
    /\ response.handler \in AutoHandlers
    /\ response.status \notin {502, 404}
    /\ ~(response.status = 422 /\ response.detail = "athlete_id")

FootballHandler == response.handler \in {"wspm_auto_projection", "wspm_auto_projection_report"}

GamelogFetched == IF FootballHandler THEN payload.nfl_gamelog ELSE payload.nba_gamelog

BaseProjectionComputed ==
    IF FootballHandler
    THEN nfl_compute_base_projection_from_gamelog(payload.nfl_gamelog, payload.market_type, 5)
    ELSE nba_compute_base_projection_from_gamelog(payload.nba_gamelog, payload.market_type, 5)

OutsideVocabulary ==
    IF FootballHandler
    THEN payload.market_type \notin {"receiving_yards", "rushing_yards", "passing_yards"}
    ELSE payload.market_type \notin {"points", "rebounds", "assists", "threes_made"}

WithoutGames ==
    /\ GamelogFetched.present
    /\ GamelogFetched.seasonTypes[1].categories[1] = <<>>

InsufficientData == HTTPException(response.handler, 422, "base_projection")

\* C24: for a market outside the vocabulary of the sport, and for a gamelog
\* that is empty or no dict, compute_base_projection_from_gamelog returns
\* 0.0, and the auto-projection handler answers with the refusal it gives
\* for a player without games: 422, insufficient data.
C24_UnknownMarketInsufficient ==
    ReachedBase =>
        /\ (OutsideVocabulary \/ ~GamelogFetched.present) =>
               /\ BaseProjectionComputed = F(0)
               /\ response = InsufficientData
        /\ (~OutsideVocabulary /\ WithoutGames) => response = InsufficientData

\* a handler refused a player with a game on record because the market is
\* not one it knows
C24_Witness ==
    /\ ReachedBase
    /\ payload.market_type = "touchdowns"
    /\ GamelogFetched.present
    /\ Len(GamelogFetched.seasonTypes[1].categories[1]) >= 1
    /\ float(GamelogFetched.seasonTypes[1].categories[1][1].stats[1]).ok
    /\ response = InsufficientData

-----------------------------------------------------------------------------
(* Properties of the shrinkage (SpecLambdas).                              *)

\* the number of games up to which the shrinkage is followed, and a large
\* sample
MaxShrinkGames == 12
LargeSample == 95

\* the raw estimate and the prior share of each side, and the posterior of
\* the side before the final clamp
RawOf(side) ==
    IF side = "home"
    THEN lambda_home_raw(lambdas.total_prior, _extract_record_data(lambda_args.home_comp).ppg,
                         _extract_record_data(lambda_args.away_comp).ppg)
    ELSE lambda_away_raw(lambdas.total_prior, _extract_record_data(lambda_args.home_comp).ppg,
                         _extract_record_data(lambda_args.away_comp).ppg)

PriorOf(side) == IF side = "home" THEN lambdas.prior_lambda_home ELSE lambdas.prior_lambda_away

GamesOf(side) == IF side = "home" THEN lambdas.h_games ELSE lambdas.a_games

RateOf(side) == IF side = "home" THEN lambdas.lambda_home ELSE lambdas.lambda_away

PosteriorOf(side) == lambda_shrunk(RawOf(side), GamesOf(side), PriorOf(side))

\* the distance of the posterior after `games' games to the raw estimate
DistanceToRaw(side, games) ==
    AbsQ(SubQ(lambda_shrunk(RawOf(side), games, PriorOf(side)), RawOf(side)))

\* C25: the raw estimate of each side is at least 0.2; its posterior before
\* the clamp is (raw * games + prior * 5) / (games + 5), which lies between
\* the raw estimate and the prior share and is the prior share at 0 games;
\* for the raw estimate and the prior share of the side, the distance of the
\* posterior to the raw estimate never grows with the games played and is
\* within a twentieth of the distance of the prior share after 95 games; the
\* rate returned is the posterior clamped to [0.2, 3.8].
C25_Shrinkage ==
    Computed =>
        \A side \in {"home", "away"} :
            LET raw == RawOf(side)
                prior == PriorOf(side)
                posterior == lambda_shrunk(raw, GamesOf(side), prior)
                Distance(games) == AbsQ(SubQ(lambda_shrunk(raw, games, prior), raw))
            IN  /\ GeQ(raw, Q(1, 5))
                /\ GamesOf(side) >= 0
                /\ posterior = PosteriorOf(side)
                /\ posterior =
                       DivQ(AddQ(MulQ(raw, F(GamesOf(side))), MulQ(prior, F(5))),
                            F(GamesOf(side) + 5))
                /\ LeQ(MinQ(raw, prior), posterior)
                /\ LeQ(posterior, MaxQ(raw, prior))
                /\ GamesOf(side) = 0 => posterior = prior
                /\ lambda_shrunk(raw, 0, prior) = prior
                /\ Distance(0) = DistanceToRaw(side, 0)
                /\ \A games \in 0 .. MaxShrinkGames :
                       LeQ(Distance(games + 1), Distance(games))
                /\ LeQ(MulQ(F(20), Distance(LargeSample)), Distance(0))
                /\ RateOf(side) = MaxQ(Q(1, 5), MinQ(Q(19, 5), posterior))

\* a home side with 18 games on record whose posterior lies strictly
\* between its raw estimate and its prior share and is returned unclamped
C25_Witness ==
    /\ Computed
    /\ lambdas.h_games = 18
    /\ LtQ(PriorOf("home"), PosteriorOf("home"))
    /\ LtQ(PosteriorOf("home"), RawOf("home"))
    /\ lambdas.lambda_home = PosteriorOf("home")
    /\ LtQ(DistanceToRaw("home", 18), DistanceToRaw("home", 1))

-----------------------------------------------------------------------------
(* SpecPicks: the 1X2 and double chance picks for the three probabilities  *)
(* of a score matrix, drawn in steps of 1 / PickSteps.                     *)

PickSteps == 18

PickPayloads ==
    { [kind |-> "picks", p_home_win |-> Q(hd[1], PickSteps),
       p_draw |-> Q(hd[2], PickSteps),
       p_away_win |-> Q(PickSteps - hd[1] - hd[2], PickSteps)] :
        hd \in { x \in (1 .. PickSteps - 2) \X (1 .. PickSteps - 2) :
                     x[1] + x[2] < PickSteps } }

InitPicks ==
    /\ payload \in PickPayloads
    /\ response = NoResponse
    /\ Idle("Eval")

SoccerPicks ==
    /\ payload.kind = "picks"
    /\ Respond(soccer_game_projection_picks(payload.p_home_win, payload.p_draw,
                                            payload.p_away_win))

NextPicks == SoccerPicks

SpecPicks == InitPicks /\ [][NextPicks]_vars

Picked == response # NoResponse /\ payload.kind = "picks"

\* the probability of a 1X2 outcome and of a double chance option
OutcomeProb(k) ==
    IF k = "1" THEN payload.p_home_win
    ELSE IF k = "X" THEN payload.p_draw
    ELSE IF k = "2" THEN payload.p_away_win
    ELSE IF k = "1X" THEN AddQ(payload.p_home_win, payload.p_draw)
    ELSE IF k = "X2" THEN AddQ(payload.p_draw, payload.p_away_win)
    ELSE AddQ(payload.p_home_win, payload.p_away_win)

\* the pick is the i-th candidate: none has a larger probability and none
\* before it has the same
FirstOfMaximal(pick, candidates) ==
    \E i \in 1 .. Len(candidates) :
        /\ pick.pick = candidates[i]
        /\ pick.prob = OutcomeProb(candidates[i])
        /\ \A j \in 1 .. Len(candidates) : GeQ(pick.prob, OutcomeProb(candidates[j]))
        /\ \A j \in 1 .. i - 1 : LtQ(OutcomeProb(candidates[j]), pick.prob)

\* C26: the 1X2 pick is an outcome of maximal probability among 1, X, 2 and
\* the double chance pick an option of maximal probability among 1X, X2, 12;
\* among candidates of equal maximal probability the earliest in that order
\* is picked, and the prob reported is the probability of the pick.
C26_ArgmaxFirst ==
    Picked =>
        /\ FirstOfMaximal(response.pick_1x2, <<"1", "X", "2">>)
        /\ FirstOfMaximal(response.double_chance_best, <<"1X", "X2", "12">>)

\* three equally likely outcomes: 1 and 1X are picked
C26_Witness ==
    /\ Picked
    /\ payload.p_home_win = payload.p_draw
    /\ payload.p_draw = payload.p_away_win
    /\ response.pick_1x2.pick = "1"
    /\ response.double_chance_best.pick = "1X"
    /\ response.double_chance_best.prob = Q(2, 3)

-----------------------------------------------------------------------------
(* Properties of the football game projection (SpecEval).                  *)

GameProjected == response.status = 200 /\ response.handler = "compute_game_projection"

\* the recent means of the team on one side of the event projected
RecentOf(side) ==
    LET events == payload.scoreboards[payload.week].events
        event == events[CHOOSE i \in 1 .. Len(events) : events[i].id = payload.event_id]
    IN  _collect_recent_team_points(payload.scoreboards,
                                    TeamOf(event.competitors, side).abbr,
                                    payload.week, payload.games_window)

BothWithoutPoints == RecentOf("home").pf = F(0) /\ RecentOf("away").pf = F(0)

\* the response repeats the book
BookFallback ==
    /\ response.model_total = payload.book_total
    /\ response.model_spread = payload.book_spread
    /\ AddQ(response.model_home_total, response.model_away_total) = payload.book_total
    /\ response.edge_total = F(0)
    /\ response.edge_spread = F(0)
    /\ response.margin_total_pct = F(0)
    /\ response.margin_spread_pct = F(0)
    /\ response.prob_total = F(52)
    /\ response.prob_spread = F(52)
    /\ response.confidence_total = "Baja"
    /\ response.confidence_spread = "Baja"
    /\ response.direction_total = "UNDER"
    /\ response.side_spread = "AWAY"

\* the response is built from the recent means of the two teams
FromRecentMeans ==
    LET home == RecentOf("home")
        away == RecentOf("away")
    IN  /\ response.model_home_total =
               IF GtQ(away.pa, F(0)) THEN DivQ(AddQ(home.pf, away.pa), F(2)) ELSE home.pf
        /\ response.model_away_total =
               IF GtQ(home.pa, F(0)) THEN DivQ(AddQ(away.pf, home.pa), F(2)) ELSE away.pf
        /\ response.model_total = AddQ(response.model_home_total, response.model_away_total)
        /\ response.model_spread = SubQ(response.model_home_total, response.model_away_total)

\* C28: when the recent points-for means of both teams are 0 the game
\* projection repeats the book: model total and spread are the book's, the
\* two model team totals add up to the book total, edges and margins are 0,
\* both probabilities are 52.0, both confidences "Baja", the direction is
\* "UNDER" and the side "AWAY"; when one of the teams has a positive
\* points-for mean the projection is built from the means instead.
C28_BookFallback ==
    GameProjected =>
        /\ BothWithoutPoints => BookFallback
        /\ GtQ(RecentOf("home").pf, F(0)) \/ GtQ(RecentOf("away").pf, F(0)) => FromRecentMeans

\* no team has a game before week 1: the book total 44 and spread 4 come back
C28_Witness ==
    /\ GameProjected
    /\ BothWithoutPoints
    /\ payload.week = 1
    /\ response.model_total = F(44)
    /\ response.model_spread = F(4)
    /\ response.model_home_total = F(24)
    /\ response.model_away_total = F(20)
    /\ response.side_spread = "AWAY"

-----------------------------------------------------------------------------
(* SpecCollect: the recent points of one team from the scoreboards of the  *)
(* weeks 1 .. MaxWeek, for a current week and a window.  response holds    *)
(* the locals of the collector at return.                                  *)

MaxCollectWindow == 2

CollectTeams == {"KC", "NYJ"}

\* no scoreboard, an empty one, a game of both teams alone and followed by
\* another game of NYJ, a game not completed, one without a score and an
\* event without competitors
CollectBoards ==
    { b \in HistoryBoards :
        b.events = <<>> \/ b.events[1].id \in {"G1", "G6", "G7", "G8"} }

CollectPayloads ==
    { [kind |-> "collect", scoreboards |-> scoreboards, team_abbr |-> team_abbr,
       current_week |-> current_week, games_window |-> window] :
        scoreboards \in [1 .. MaxWeek -> CollectBoards], team_abbr \in CollectTeams,
        current_week \in 1 .. MaxWeek, window \in 0 .. MaxCollectWindow }

InitCollect ==
    /\ payload \in CollectPayloads
    /\ response = NoResponse
    /\ Idle("Eval")

CollectRecentTeamPoints ==
    /\ payload.kind = "collect"
    /\ Respond([handler |-> "_collect_recent_team_points",
                status |-> 200,
                points |-> CollectWeeks(payload.scoreboards, payload.current_week - 1,
                                        payload.team_abbr, payload.games_window, <<>>),
                returned |-> _collect_recent_team_points(payload.scoreboards,
                                                         payload.team_abbr,
                                                         payload.current_week,
                                                         payload.games_window)])

NextCollect == CollectRecentTeamPoints

SpecCollect == InitCollect /\ [][NextCollect]_vars

Collected == response # NoResponse /\ payload.kind = "collect"

\* the games of the team among the events of one scoreboard, in the order
\* of the scoreboard: completed, with two competitors, the team on one side
\* and both scores numbers; one pair of points per event
RECURSIVE QualifyingEvents(_, _)
QualifyingEvents(events, team_abbr) ==
    IF events = <<>> THEN <<>>
    ELSE (IF Len(Head(events).competitors) >= 2 /\ Head(events).completed
          THEN SidePoints(Head(events), team_abbr) ELSE <<>>)
         \o QualifyingEvents(Tail(events), team_abbr)

\* the games of the team in the weeks wk down to 1, the latest week first;
\* a week without a scoreboard has none
RECURSIVE QualifyingGames(_, _, _)
QualifyingGames(scoreboards, wk, team_abbr) ==
    IF wk < 1 THEN <<>>
    ELSE (IF scoreboards[wk].present /\ scoreboards[wk].has_events
          THEN QualifyingEvents(scoreboards[wk].events, team_abbr) ELSE <<>>)
         \o QualifyingGames(scoreboards, wk - 1, team_abbr)

QualifyingBefore ==
    QualifyingGames(payload.scoreboards, payload.current_week - 1, payload.team_abbr)

\* a week with a scoreboard and a game of the team, after a week without
SkipsUnavailable ==
    \E wk \in 2 .. payload.current_week - 1 :
        /\ ~payload.scoreboards[wk].present
        /\ QualifyingGames(payload.scoreboards, wk - 1, payload.team_abbr) # <<>>

\* C29: the collector uses at most games_window games; the games used are
\* completed games of weeks before current_week, taken from week
\* current_week - 1 downwards and in each week in the order of the
\* scoreboard, one pair of points per event; weeks without a scoreboard
\* are skipped; without a qualifying game (as in week 1) the result is
\* (0.0, 0.0).
C29_RecentGames ==
    Collected =>
        /\ Len(response.points) <= payload.games_window
        /\ Len(response.points) <= Len(QualifyingBefore)
        /\ response.points = SubSeq(QualifyingBefore, 1, Len(response.points))
        /\ QualifyingBefore = <<>> => response.returned = [pf |-> F(0), pa |-> F(0)]
        /\ payload.current_week = 1 => response.returned = [pf |-> F(0), pa |-> F(0)]

\* the same for a window of one game or more, where the games used are the
\* first games_window qualifying games, or all of them when there are fewer
CollectsWindow ==
    Collected /\ payload.games_window >= 1 =>
        /\ Len(response.points) <= payload.games_window
        /\ response.points = FirstN(QualifyingBefore, payload.games_window)
        /\ QualifyingBefore = <<>> => response.returned = [pf |-> F(0), pa |-> F(0)]
        /\ response.points # <<>> =>
               response.returned =
                   [pf |-> Mean([i \in 1 .. Len(response.points) |-> response.points[i].pf]),
                    pa |-> Mean([i \in 1 .. Len(response.points) |-> response.points[i].pa])]

-----------------------------------------------------------------------------
(* Properties of the Over 2.5 market (SpecSoccer).                         *)

\* the probability of the Over 2.5 market is the blend of the Poisson
\* probability and the logistic of the response
BlendedProb ==
    response.over25_pick.prob =
        _ai_adjust_over25_prob(response.prob_over25_poisson, response.lambda_home,
                               response.lambda_away, response.book_over_under)

\* C30: the Over 2.5 pick is "OVER 2.5" exactly when the blended
\* probability is at least 0.55 and "NO BET" otherwise, never an under; a
\* "NO BET" has confidence "Baja" and an "OVER 2.5" never has; the blended
\* probability is between 0 and 1.
C30_OverOrNoBet ==
    SoccerProjected =>
        /\ BlendedProb
        /\ response.over25_pick.pick =
               IF GeQ(response.over25_pick.prob, Q(11, 20)) THEN "OVER 2.5" ELSE "NO BET"
        /\ response.over25_pick.pick = "NO BET" => response.over25_pick.confidence = "Baja"
        /\ response.over25_pick.pick = "OVER 2.5" => response.over25_pick.confidence # "Baja"
        /\ GeQ(response.over25_pick.prob, F(0))
        /\ LeQ(response.over25_pick.prob, F(1))

\* a game with even odds or better of three goals that is not picked
C30_Witness ==
    /\ SoccerProjected
    /\ GeQ(response.over25_pick.prob, Q(1, 2))
    /\ LtQ(response.over25_pick.prob, Q(11, 20))
    /\ response.over25_pick.pick = "NO BET"
    /\ response.over25_pick.confidence = "Baja"

====
